---- MODULE Spec2Model ----
(***************************************************************************)
(* State-machine model of the Mongo CRUD layer of pycommon_database:       *)
(*   - VersioningCRUDModel (versioning_mongo.py): add, add_all, update,    *)
(*     remove and rollback_to over a collection of revisions;              *)
(*   - CRUDModel (database_mongo.py): auto-incremented fields backed by    *)
(*     the counters collection, sequentially and with interleaved adds;    *)
(*   - CRUDModel with audit=True: the audit trail written by the           *)
(*     insert / update / delete paths, call by call and store operation by *)
(*     store operation;                                                    *)
(*   - CRUDModel on a plain model: validation, deserialization and         *)
(*     serialization of the documents of add, add_all, update, remove,     *)
(*     get and get_all.                                                    *)
(*                                                                         *)
(* The store follows MongoDB semantics: a unique index is enforced on      *)
(* every write (insert and update), a single-document write applies to one *)
(* of the matching documents (which one is up to the store), and a         *)
(* multi-document write is applied document by document, in an order the   *)
(* store chooses, stopping at the first document it rejects.               *)
(***************************************************************************)
EXTENDS Integers, Sequences, FiniteSets, TLC

(***************************************************************************)
(* Bounds of the model.                                                    *)
(***************************************************************************)
MaxTime == 3        \* datetime.utcnow() hands out the instants 1..MaxTime
MaxBatch == 2       \* longest list given to add_all
MaxCalls == 4       \* calls made on the auto-increment model
MaxOps == 4         \* calls made on the audited model
MaxList == 3        \* longest list submitted in a list field

Keys == {"a", "b"}          \* values of the primary key field "key"
Values == {"v1", "v2"}      \* values of the non-key field "value"
None == "None"              \* Python None in a str field / an absent field
NoDate == 0 - 1             \* a null (or absent) datetime field

VARIABLES
    collection,     \* versioned model: the set of stored documents
    clock,          \* the last instant datetime.utcnow() returned
    nextId,         \* the next _id the store assigns
    last,           \* versioned model: the last call, its outcome and count
    incCollection,  \* auto-increment model: the set of stored documents
    counters,       \* the counters collection: (category, name) -> counter
    calls,          \* auto-increment model: the calls made so far, in order
    pc,             \* interleaved adds: where each client is in its add
    local,          \* interleaved adds: the document each client is adding
    audCollection,  \* audited model: the stored documents, in natural order
    audit,          \* the audit collection of the model, in natural order
    ops,            \* audited model: the calls made so far, in order
    pending,        \* audited model: the call in progress, between its two
                    \* store operations
    plain,          \* plain model: the set of stored documents
    plainLast,      \* plain model: the last call and what it returned or raised
    audit_model,    \* plain model: whether cls.audit_model is set
    listCollection, \* list model: the set of stored documents
    listLast,       \* list model: the last call and what it returned or raised
    dpCollection,   \* default-key model: the stored documents, in natural order
    dpLast,         \* default-key model: the last call and its result
    conv,           \* field conversion: the value submitted for a field and
                    \* what the conversions made of it so far
    upd             \* versioned model: where each client is in its update,
                    \* store operation by store operation

verVars == <<collection, clock, nextId, last>>
incVars == <<incCollection, counters, calls>>
conVars == <<pc, local>>
audVars == <<audCollection, audit, ops, pending>>
plainVars == <<plain, plainLast, audit_model>>
listVars == <<listCollection, listLast>>
\* The variables of the models declared after the plain model.
dpVars == <<dpCollection, dpLast>>
otherVars == <<listVars, dpVars, conv, upd>>

vars == <<collection, clock, nextId, last, incCollection, counters, calls,
          pc, local, audCollection, audit, ops, pending, plain, plainLast,
          audit_model, otherVars>>

(***************************************************************************)
(* Versioned model under test:                                             *)
(*   key   = Column(str, is_primary_key=True, index_type=IndexType.Unique) *)
(*   value = Column(str)                                                   *)
(* plus the two fields VersioningCRUDModel declares.  The model is         *)
(* declared with audit=True; its audit collection is the variable audit,   *)
(* which the store paths of VersioningCRUDModel never write: they override *)
(* _insert_one, _insert_many, _update_one and _delete_many without the     *)
(* calls on cls.audit_model.                                               *)
(***************************************************************************)

\* Mutant: the Unique index type declared on valid_since_utc instead of
\* valid_until_utc.
UniqueIndexOnValidSince == {"key", "valid_since_utc"}

\* Fields with index_type == IndexType.Unique, as _get_index_fields collects
\* them: the model's key and VersioningCRUDModel.valid_until_utc.
UniqueIndexFields == {"key", "valid_until_utc"}

\* Mutant: the index is created without unique=True.
NoUniqueIndex == FALSE

\* _create_indexes creates the index with unique = (index_type == Unique).
CreateIndexUnique == TRUE

IndexEntry(d) == [f \in UniqueIndexFields |-> d[f]]

\* The store rejects a write that would leave two documents with the same
\* entry in the unique index (pymongo.errors.DuplicateKeyError).
DuplicateKey(coll, d) ==
    /\ CreateIndexUnique
    /\ \E o \in coll : o.id # d.id /\ IndexEntry(o) = IndexEntry(d)


(***************************************************************************)
(* Store primitives (pymongo Collection) on the versioned collection.      *)
(***************************************************************************)

\* Collection.insert_one: the document is stored unless the unique index
\* rejects it.
insert_one(coll, d) ==
    IF DuplicateKey(coll, d)
    THEN [ok |-> FALSE, coll |-> coll]
    ELSE [ok |-> TRUE, coll |-> coll \cup {d}]

\* Collection.insert_many (ordered): documents are inserted in list order
\* and the first rejected one stops the batch (BulkWriteError); the ones
\* inserted before it stay.
RECURSIVE insert_many(_, _)
insert_many(coll, docs) ==
    IF docs = <<>>
    THEN [ok |-> TRUE, coll |-> coll]
    ELSE LET r == insert_one(coll, Head(docs))
         IN IF r.ok THEN insert_many(r.coll, Tail(docs)) ELSE r

\* {'$set': {valid_until_utc: now}} applied to document d.
SetUntil(coll, d, now) ==
    (coll \ {d}) \cup {[d EXCEPT !.valid_until_utc = now]}

\* Collection.update_one(filter, {'$set': {valid_until_utc: now}}): the
\* possible results, one per document of `matching` the store may pick.
update_one(coll, matching, now) ==
    IF matching = {}
    THEN {[ok |-> TRUE, coll |-> coll, n |-> 0]}
    ELSE { IF d.valid_until_utc = now
           THEN [ok |-> TRUE, coll |-> coll, n |-> 0]
           ELSE IF DuplicateKey(coll \ {d}, [d EXCEPT !.valid_until_utc = now])
                THEN [ok |-> FALSE, coll |-> coll, n |-> 0]
                ELSE [ok |-> TRUE, coll |-> SetUntil(coll, d, now), n |-> 1]
           : d \in matching }

\* Collection.update_many(filter, {'$set': {valid_until_utc: now}}) over the
\* documents whose _id is in ids: the possible results, over every order in
\* which the store may visit them. n is modified_count.
RECURSIVE update_many(_, _, _)
update_many(coll, ids, now) ==
    IF ids = {}
    THEN {[ok |-> TRUE, coll |-> coll, n |-> 0]}
    ELSE UNION {
           LET d == CHOOSE x \in coll : x.id = i
           IN IF d.valid_until_utc = now
              THEN update_many(coll, ids \ {i}, now)
              ELSE IF DuplicateKey(coll \ {d}, [d EXCEPT !.valid_until_utc = now])
                   THEN {[ok |-> FALSE, coll |-> coll, n |-> 0]}
                   ELSE { [r EXCEPT !.n = r.n + 1] :
                            r \in update_many(SetUntil(coll, d, now), ids \ {i}, now) }
           : i \in ids }

Ids(docs) == {d.id : d \in docs}

(***************************************************************************)
(* Validation and filters (database_mongo.py).                             *)
(***************************************************************************)

\* Column.validate_insert / CRUDModel.validate_insert for the versioned
\* model: the primary key is not nullable, every other field is.
validate_insert(document) ==
    IF document.key = None THEN {"key"} ELSE {}

\* CRUDModel.validate_update: primary keys are validated even when absent.
validate_update(document) ==
    IF document.key = None THEN {"key"} ELSE {}

\* CRUDModel.deserialize_query followed by the store's filter matching: a
\* None filter on a field without allow_none_as_filter is dropped.
Matches(d, filters) ==
    /\ filters.key = None \/ d.key = filters.key
    /\ filters.value = None \/ d.value = filters.value

\* CRUDModel._to_primary_keys_model, then the store's matching on it.
SamePrimaryKey(d, document) == d.key = document.key

CurrentlyValid(d) == d.valid_until_utc = NoDate


(***************************************************************************)
(* VersioningCRUDModel (versioning_mongo.py).  Each operator gives the     *)
(* results the call can have on collection coll at instant now, the store  *)
(* assigning _id values from id on.                                        *)
(***************************************************************************)

\* The stored form of a submitted document: deserialize_insert, then the two
\* validity stamps.
Revision(id, key, value, now) ==
    [id |-> id, key |-> key, value |-> value,
     valid_since_utc |-> now, valid_until_utc |-> NoDate]

\* VersioningCRUDModel._insert_one
Versioning_insert_one(coll, document, now, id) ==
    insert_one(coll, Revision(id, document.key, document.value, now))

\* VersioningCRUDModel._insert_many: one instant for the whole batch.
Versioning_insert_many(coll, documents, now, id) ==
    insert_many(coll, [i \in 1..Len(documents) |->
        Revision(id + i - 1, documents[i].key, documents[i].value, now)])

\* The filter of update_one in _update_one, after valid_until_utc has been
\* popped from it: the primary key alone.
UpdateOneFilter(coll, document) ==
    {d \in coll : SamePrimaryKey(d, document)}

\* {**previous, **model_as_dict, valid_since_utc: now, valid_until_utc: None}
\* where deserialize_update has removed the None fields of model_as_dict.
Merged(previous, document, now, id) ==
    Revision(id,
             document.key,
             IF document.value # None THEN document.value ELSE previous.value,
             now)

\* VersioningCRUDModel._update_one, with the DuplicateKeyError handler of
\* CRUDModel.update around it.
Versioning_update_one(coll, document, now, id) ==
    LET found == {d \in coll : SamePrimaryKey(d, document) /\ CurrentlyValid(d)}
    IN IF found = {}
       THEN {[outcome |-> "notfound", coll |-> coll, read |-> FALSE]}
       ELSE UNION { {
              IF ~u.ok
              THEN [outcome |-> "exists", coll |-> u.coll, read |-> TRUE]
              ELSE LET r == insert_one(u.coll, Merged(previous, document, now, id))
                   IN IF r.ok
                      THEN [outcome |-> "ok", coll |-> r.coll, read |-> TRUE]
                      ELSE [outcome |-> "exists", coll |-> r.coll, read |-> TRUE]
              : u \in update_one(coll, UpdateOneFilter(coll, document), now) }
            : previous \in found }

\* Mutant: _delete_many without valid_until_utc = None in its filter.
DeleteManyFilterAnyRevision(coll, filters) ==
    {d \in coll : Matches(d, filters)}

\* The filter of update_many in _delete_many: the filters and
\* valid_until_utc = None.
DeleteManyFilter(coll, filters) ==
    {d \in coll : Matches(d, filters) /\ CurrentlyValid(d)}

\* VersioningCRUDModel._delete_many
Versioning_delete_many(coll, filters, now) ==
    update_many(coll, Ids(DeleteManyFilter(coll, filters)), now)

\* Mutant: the find of rollback_to without its condition on valid_until_utc.
PreviouslyExpiredAnyEnd(coll, filters, validity) ==
    {d \in coll : Matches(d, filters) /\ d.valid_since_utc <= validity}

\* The find of rollback_to: valid_since_utc <= validity < valid_until_utc.
\* '$gt' never matches a null valid_until_utc.
PreviouslyExpired(coll, filters, validity) ==
    {d \in coll : /\ Matches(d, filters)
                  /\ d.valid_since_utc <= validity
                  /\ d.valid_until_utc # NoDate
                  /\ d.valid_until_utc > validity}

\* The orders in which the cursor may return the documents of S.
RECURSIVE Orders(_)
Orders(S) ==
    IF S = {}
    THEN {<<>>}
    ELSE UNION {{<<d>> \o s : s \in Orders(S \ {d})} : d \in S}

\* The filter of update_many in rollback_to, after valid_until_utc has been
\* popped from it: the primary key alone.
RollbackCloseFilter(coll, expired) ==
    {d \in coll : SamePrimaryKey(d, expired)}

\* First loop of rollback_to ("Update currently valid as non valid anymore").
RECURSIVE RollbackClose(_, _, _)
RollbackClose(coll, expired, now) ==
    IF expired = <<>>
    THEN {[ok |-> TRUE, coll |-> coll]}
    ELSE LET e == Head(expired)
             actual == {d \in coll : SamePrimaryKey(d, e) /\ CurrentlyValid(d)}
         IN IF actual = {}
            THEN RollbackClose(coll, Tail(expired), now)
            ELSE UNION {
                   IF u.ok
                   THEN RollbackClose(u.coll, Tail(expired), now)
                   ELSE {[ok |-> FALSE, coll |-> u.coll]}
                   : u \in update_many(coll, Ids(RollbackCloseFilter(coll, e)), now) }

\* VersioningCRUDModel.rollback_to once validity and filters are validated.
Versioning_rollback_to(coll, filters, validity, now, id) ==
    UNION { UNION { {
        IF ~c.ok
        THEN [outcome |-> "DuplicateKeyError", coll |-> c.coll, count |-> 0]
        ELSE LET r == insert_many(c.coll, [i \in 1..Len(expired) |->
                        Revision(id + i - 1, expired[i].key, expired[i].value, now)])
             IN IF r.ok
                THEN [outcome |-> "ok", coll |-> r.coll, count |-> Len(expired)]
                ELSE [outcome |-> "BulkWriteError", coll |-> r.coll, count |-> 0]
        } : c \in RollbackClose(coll, expired, now) }
      : expired \in Orders(PreviouslyExpired(coll, filters, validity)) }


(***************************************************************************)
(* The calls a client can make on the versioned model.  Outcomes:          *)
(*   "ok"        the call returned                                         *)
(*   "invalid"   ValidationFailed raised by validation of the input        *)
(*   "nodata"    ValidationFailed('No data provided.')                     *)
(*   "exists"    ValidationFailed('This document already exists.') or, for *)
(*               add_all, ValidationFailed(str(BulkWriteError details))    *)
(*   "notfound"  ModelCouldNotBeFound                                      *)
(*   "DuplicateKeyError", "BulkWriteError"  the store's error, uncaught    *)
(***************************************************************************)

Documents == [key : Keys \cup {None}, value : Values \cup {None}]
Filters == [key : Keys \cup {None}, value : Values \cup {None}]
\* rollback_to is called with no filter or with a filter on the primary key
RollbackFilters == [key : Keys \cup {None}, value : {None}]
BatchDocuments == [key : Keys \cup {None}, value : {"v1"}]
Batches == UNION {[1..n -> BatchDocuments] : n \in 0..MaxBatch}
Validities == 0..MaxTime \cup {NoDate}

Call(op, outcome, count) ==
    [op |-> op, outcome |-> outcome, count |-> count]

\* The variables of the other models, which a call on the versioned model
\* leaves alone.
OnlyVersioned == UNCHANGED <<incVars, conVars, audVars, plainVars, otherVars>>

\* CRUDModel.add on the versioned model
add(document) ==
    /\ OnlyVersioned
    /\ IF validate_insert(document) # {}
       THEN /\ last' = Call("add", "invalid", 0)
            /\ UNCHANGED <<collection, clock, nextId>>
       ELSE /\ clock < MaxTime
            /\ clock' = clock + 1
            /\ nextId' = nextId + 1
            /\ LET r == Versioning_insert_one(collection, document, clock + 1, nextId)
               IN /\ collection' = r.coll
                  /\ last' = Call("add", IF r.ok THEN "ok" ELSE "exists", 0)

\* CRUDModel.add_all on the versioned model
add_all(documents) ==
    /\ OnlyVersioned
    /\ IF documents = <<>>
       THEN /\ last' = Call("add_all", "nodata", 0)
            /\ UNCHANGED <<collection, clock, nextId>>
       ELSE IF \E i \in DOMAIN documents : validate_insert(documents[i]) # {}
       THEN /\ last' = Call("add_all", "invalid", 0)
            /\ UNCHANGED <<collection, clock, nextId>>
       ELSE /\ clock < MaxTime
            /\ clock' = clock + 1
            /\ nextId' = nextId + Len(documents)
            /\ LET r == Versioning_insert_many(collection, documents, clock + 1, nextId)
               IN /\ collection' = r.coll
                  /\ last' = Call("add_all", IF r.ok THEN "ok" ELSE "exists", 0)

\* CRUDModel.update on the versioned model
update(document) ==
    /\ OnlyVersioned
    /\ IF validate_update(document) # {}
       THEN /\ last' = Call("update", "invalid", 0)
            /\ UNCHANGED <<collection, clock, nextId>>
       ELSE \E r \in Versioning_update_one(collection, document, clock + 1, nextId) :
              /\ r.read => clock < MaxTime
              /\ clock' = IF r.read THEN clock + 1 ELSE clock
              /\ nextId' = IF r.read THEN nextId + 1 ELSE nextId
              /\ collection' = r.coll
              /\ last' = Call("update", r.outcome, 0)

\* CRUDModel.remove on the versioned model
remove(filters) ==
    /\ OnlyVersioned
    /\ clock < MaxTime
    /\ clock' = clock + 1
    /\ UNCHANGED nextId
    /\ \E r \in Versioning_delete_many(collection, filters, clock + 1) :
         /\ collection' = r.coll
         /\ last' = Call("remove", IF r.ok THEN "ok" ELSE "DuplicateKeyError", r.n)

\* VersioningCRUDModel.rollback_to; validity = NoDate stands for a call
\* without validity (_get_validity raises).
rollback_to(filters, validity) ==
    /\ OnlyVersioned
    /\ IF validity = NoDate
       THEN /\ last' = Call("rollback_to", "invalid", 0)
            /\ UNCHANGED <<collection, clock, nextId>>
       ELSE /\ clock < MaxTime
            /\ clock' = clock + 1
            /\ nextId' = nextId + Cardinality(
                             PreviouslyExpired(collection, filters, validity))
            /\ \E r \in Versioning_rollback_to(collection, filters, validity,
                                               clock + 1, nextId) :
                 /\ last' = Call("rollback_to", r.outcome, r.count)
                 /\ collection' = r.coll

(***************************************************************************)
(* CRUDModel.update on the versioned model, store operation by store       *)
(* operation: the find_one of _update_one, its update_one, its insert_one  *)
(* (with the find_one of the return statement, which writes nothing).      *)
(* Each client makes one update.                                           *)
(***************************************************************************)

UpdClients == {"u1", "u2"}
UpdDocuments == [key : Keys, value : Values]

NoRevision == Revision(0, None, None, NoDate)

\* pc is "idle" before the call, "close" between find_one and update_one,
\* "insert" between update_one and insert_one, "returned" afterwards.
\* overlap tells that the call began while another one was in progress.
Updating(at, document, previous, now, outcome, overlap) ==
    [pc |-> at, document |-> document, previous |-> previous, now |-> now,
     outcome |-> outcome, overlap |-> overlap]

NotUpdating ==
    Updating("idle", [key |-> None, value |-> None], NoRevision, NoDate, "none", FALSE)

InProgress(c) == upd[c].pc \in {"close", "insert"}

OnlyUpdate ==
    UNCHANGED <<last, incVars, conVars, audVars, plainVars, listVars, dpVars, conv>>

\* update up to the first write: validate_update, deserialize_update, the
\* find_one on the primary key and valid_until_utc = None, then utcnow(),
\* which may return the instant a call in progress was given.
update_find(c, document) ==
    /\ OnlyUpdate
    /\ upd[c].pc = "idle"
    /\ LET found == {d \in collection : SamePrimaryKey(d, document) /\ CurrentlyValid(d)}
           overlap == \E o \in UpdClients \ {c} : InProgress(o)
       IN IF validate_update(document) # {}
          THEN /\ upd' = [upd EXCEPT ![c] =
                     Updating("returned", document, NoRevision, NoDate, "invalid", overlap)]
               /\ UNCHANGED clock
          ELSE IF found = {}
          THEN /\ upd' = [upd EXCEPT ![c] =
                     Updating("returned", document, NoRevision, NoDate, "notfound", overlap)]
               /\ UNCHANGED clock
          ELSE \E previous \in found :
               \E now \in {clock + 1} \cup {upd[o].now : o \in {x \in UpdClients : InProgress(x)}} :
                 /\ now <= MaxTime
                 /\ clock' = IF now > clock THEN now ELSE clock
                 /\ upd' = [upd EXCEPT ![c] =
                       Updating("close", document, previous, now, "none", overlap)]
    /\ UNCHANGED <<collection, nextId>>

\* "Update rev_to": the update_one on the primary key.
update_close(c) ==
    /\ OnlyUpdate
    /\ upd[c].pc = "close"
    /\ \E u \in update_one(collection, UpdateOneFilter(collection, upd[c].document),
                            upd[c].now) :
         /\ collection' = u.coll
         /\ upd' = [upd EXCEPT ![c] =
               IF u.ok THEN [@ EXCEPT !.pc = "insert"]
               ELSE [@ EXCEPT !.pc = "returned", !.outcome = "exists"]]
    /\ UNCHANGED <<clock, nextId>>

\* "Insert new row": the insert_one, then the return or ValidationFailed.
update_insert(c) ==
    /\ OnlyUpdate
    /\ upd[c].pc = "insert"
    /\ LET r == insert_one(collection,
                           Merged(upd[c].previous, upd[c].document, upd[c].now, nextId))
       IN /\ collection' = r.coll
          /\ upd' = [upd EXCEPT ![c] =
                [@ EXCEPT !.pc = "returned",
                          !.outcome = IF r.ok THEN "ok" ELSE "exists"]]
    /\ nextId' = nextId + 1
    /\ UNCHANGED clock

(***************************************************************************)
(* Model with an auto-incremented field (database_mongo.py):               *)
(*   class TestAutoIncrementModel(CRUDModel, table_name='auto_increment')  *)
(*     id   = Column(int, should_auto_increment=True)                      *)
(*     name = Column(str, is_primary_key=True,                             *)
(*                   index_type=IndexType.Unique)                          *)
(***************************************************************************)

Names == {"x", "y"}         \* values of the field "name"
ClientIds == {1, 2}         \* values a client may submit for the field "id"
NoInt == 0 - 1              \* Python None in an int field / an absent field
Clients == {"c1", "c2"}     \* clients whose add calls interleave

IncDocuments == [id : ClientIds \cup {NoInt}, name : Names \cup {None}]
IncFilters == [id : {NoInt, 1}, name : Names \cup {None}]

\* The class-level handles a classmethod of the model reaches through cls:
\* __collection__, its name, and __counters__.
Cls == [collection |-> incCollection, name |-> "auto_increment",
        counters |-> counters]

\* Mutant: the next value is read from the stored documents (highest stored
\* value plus one) instead of being taken from the counter.
IncrementFromStored(cls, counter_name) ==
    LET stored == {d.id : d \in cls.collection}
        value == IF stored = {} THEN 1
                 ELSE 1 + CHOOSE m \in stored : \A o \in stored : o <= m
        key == <<cls.name, counter_name>>
    IN [value |-> value,
        counters |-> [k \in DOMAIN cls.counters \cup {key} |->
                         IF k = key THEN value ELSE cls.counters[k]]]

\* CRUDModel._increment with the default category (the collection name):
\* one find_one_and_update with upsert=True, '$inc' of 1 and
\* ReturnDocument.AFTER.  A counter that does not exist is created at 1.
CRUDModel_increment(cls, counter_name) ==
    LET key == <<cls.name, counter_name>>
        value == IF key \in DOMAIN cls.counters THEN cls.counters[key] + 1 ELSE 1
    IN [value |-> value,
        counters |-> [k \in DOMAIN cls.counters \cup {key} |->
                         IF k = key THEN value ELSE cls.counters[k]]]

\* CRUDModel.validate_insert for this model: name is the only field that is
\* not nullable (id is auto-incremented).
Inc_validate_insert(document) ==
    IF document.name = None THEN {"name"} ELSE {}

\* CRUDModel.deserialize_insert: every auto-incremented field is overwritten
\* with the incremented counter, whatever the document held.
Inc_deserialize_insert(cls, document) ==
    LET r == CRUDModel_increment(cls, "id")
    IN [document |-> [document EXCEPT !.id = r.value], counters |-> r.counters]

\* Collection.insert_one under the unique index on name.
Inc_insert_one(coll, d) ==
    IF CreateIndexUnique /\ \E o \in coll : o.name = d.name
    THEN [ok |-> FALSE, coll |-> coll]
    ELSE [ok |-> TRUE, coll |-> coll \cup {d}]

\* deserialize_query and the store's matching for this model.
IncMatches(d, filters) ==
    /\ filters.id = NoInt \/ d.id = filters.id
    /\ filters.name = None \/ d.name = filters.name

\* CRUDModel._delete_many without audit: Collection.delete_many.
Inc_delete_many(coll, filters) ==
    [coll |-> {d \in coll : ~IncMatches(d, filters)},
     n |-> Cardinality({d \in coll : IncMatches(d, filters)})]

IncCall(op, outcome, value, submitted) ==
    [op |-> op, outcome |-> outcome, value |-> value, submitted |-> submitted]

OnlyAutoIncrement == UNCHANGED <<verVars, conVars, audVars, plainVars, otherVars>>

\* CRUDModel.add on the auto-increment model
AutoIncrement_add(document) ==
    /\ OnlyAutoIncrement
    /\ Len(calls) < MaxCalls
    /\ IF Inc_validate_insert(document) # {}
       THEN /\ calls' = Append(calls, IncCall("add", "invalid", NoInt, document.id))
            /\ UNCHANGED <<incCollection, counters>>
       ELSE LET d == Inc_deserialize_insert(Cls, document)
                r == Inc_insert_one(incCollection, d.document)
            IN /\ counters' = d.counters
               /\ incCollection' = r.coll
               /\ calls' = Append(calls,
                      IncCall("add", IF r.ok THEN "ok" ELSE "exists",
                              d.document.id, document.id))

\* CRUDModel.remove on the auto-increment model
AutoIncrement_remove(filters) ==
    /\ OnlyAutoIncrement
    /\ Len(calls) < MaxCalls
    /\ LET r == Inc_delete_many(incCollection, filters)
       IN /\ incCollection' = r.coll
          /\ calls' = Append(calls, IncCall("remove", "ok", r.n, NoInt))
    /\ UNCHANGED counters

\* The documents of the batches given to add_all on the auto-increment model.
IncBatchDocuments == [id : {NoInt}, name : Names \cup {None}]
IncBatches == UNION {[1..n -> IncBatchDocuments] : n \in 0..MaxBatch}

\* The loop of CRUDModel.add_all: each document is validated and, when it is
\* valid, deserialized at once (which increments the counter), before the
\* documents after it are validated.
RECURSIVE Inc_add_all_loop(_, _, _, _)
Inc_add_all_loop(cls, documents, index, acc) ==
    IF index > Len(documents) THEN acc
    ELSE IF Inc_validate_insert(documents[index]) # {}
    THEN Inc_add_all_loop(cls, documents, index + 1,
             [acc EXCEPT !.errors = @ \cup {index},
                         !.new_documents = Append(@, documents[index])])
    ELSE LET d == Inc_deserialize_insert([cls EXCEPT !.counters = acc.counters],
                                         documents[index])
         IN Inc_add_all_loop(cls, documents, index + 1,
                [acc EXCEPT !.new_documents = Append(@, d.document),
                            !.counters = d.counters])

\* Collection.insert_many, ordered: the documents are inserted one after
\* the other up to the first one the unique index refuses.
RECURSIVE Inc_insert_many(_, _)
Inc_insert_many(coll, documents) ==
    IF documents = <<>> THEN [ok |-> TRUE, coll |-> coll, n |-> 0]
    ELSE LET r == Inc_insert_one(coll, Head(documents))
         IN IF ~r.ok THEN [ok |-> FALSE, coll |-> coll, n |-> 0]
            ELSE LET rest == Inc_insert_many(r.coll, Tail(documents))
                 IN [rest EXCEPT !.n = @ + 1]

\* CRUDModel.add_all on the auto-increment model
AutoIncrement_add_all(documents) ==
    /\ OnlyAutoIncrement
    /\ Len(calls) < MaxCalls
    /\ IF documents = <<>>
       THEN /\ calls' = Append(calls, IncCall("add_all", "invalid", 0, NoInt))
            /\ UNCHANGED <<incCollection, counters>>
       ELSE LET loop == Inc_add_all_loop(Cls, documents, 1,
                            [errors |-> {}, new_documents |-> <<>>,
                             counters |-> counters])
            IN IF loop.errors # {}
               THEN /\ counters' = loop.counters
                    /\ calls' = Append(calls, IncCall("add_all", "invalid", 0, NoInt))
                    /\ UNCHANGED incCollection
               ELSE LET r == Inc_insert_many(incCollection, loop.new_documents)
                    IN /\ counters' = loop.counters
                       /\ incCollection' = r.coll
                       /\ calls' = Append(calls,
                              IncCall("add_all", IF r.ok THEN "ok" ELSE "exists",
                                      r.n, NoInt))

(***************************************************************************)
(* Versioned model with an auto-incremented field:                         *)
(*   class TestModel(VersioningCRUDModel, table_name='versioned_auto')     *)
(*     key    = Column(str, is_primary_key=True,                           *)
(*                     index_type=IndexType.Unique)                        *)
(*     number = Column(int, should_auto_increment=True)                    *)
(*     value  = Column(str)                                                *)
(* Its revisions are kept in the variable collection, its counter in the   *)
(* counters collection.                                                    *)
(***************************************************************************)

VIncDocuments == [key : Keys, value : Values]

VIncCls == [collection |-> collection, name |-> "versioned_auto",
            counters |-> counters]

VIncRevision(id, key, number, value, now) ==
    [id |-> id, key |-> key, number |-> number, value |-> value,
     valid_since_utc |-> now, valid_until_utc |-> NoDate]

OnlyVersionedAutoIncrement ==
    UNCHANGED <<incCollection, calls, conVars, audVars, plainVars, otherVars>>

\* CRUDModel.add on this model: deserialize_insert takes the next value of
\* the counter, VersioningCRUDModel._insert_one stamps and inserts.
VInc_add(document) ==
    /\ OnlyVersionedAutoIncrement
    /\ clock < MaxTime
    /\ clock' = clock + 1
    /\ nextId' = nextId + 1
    /\ LET inc == CRUDModel_increment(VIncCls, "number")
           r == insert_one(collection,
                    VIncRevision(nextId, document.key, inc.value, document.value,
                                 clock + 1))
       IN /\ counters' = inc.counters
          /\ collection' = r.coll
          /\ last' = Call("add", IF r.ok THEN "ok" ELSE "exists", 0)

\* cls.deserialize_insert(model_as_dict) in VersioningCRUDModel._update_one:
\* the auto-incremented field of the merged document is overwritten with
\* the incremented counter.
VInc_deserialize_insert(cls, merged) ==
    LET inc == CRUDModel_increment(cls, "number")
    IN [document |-> [merged EXCEPT !.number = inc.value],
        counters |-> inc.counters]

\* CRUDModel.update on this model: VersioningCRUDModel._update_one with the
\* DuplicateKeyError handler of CRUDModel.update around it.
VInc_update(document) ==
    /\ OnlyVersionedAutoIncrement
    /\ LET found == {d \in collection : SamePrimaryKey(d, document) /\ CurrentlyValid(d)}
           now == clock + 1
       IN IF found = {}
          THEN /\ last' = Call("update", "notfound", 0)
               /\ UNCHANGED <<collection, clock, nextId, counters>>
          ELSE /\ clock < MaxTime
               /\ clock' = now
               /\ nextId' = nextId + 1
               /\ \E previous \in found :
                  \E u \in update_one(collection, UpdateOneFilter(collection, document), now) :
                    IF ~u.ok
                    THEN /\ collection' = u.coll
                         /\ last' = Call("update", "exists", 0)
                         /\ UNCHANGED counters
                    ELSE LET merged == VIncRevision(nextId, document.key, previous.number,
                                                    document.value, now)
                             d == VInc_deserialize_insert(VIncCls, merged)
                             r == insert_one(u.coll, d.document)
                         IN /\ counters' = d.counters
                            /\ collection' = r.coll
                            /\ last' = Call("update", IF r.ok THEN "ok" ELSE "exists", 0)

(***************************************************************************)
(* Interleaved add calls on the auto-increment model: each client goes     *)
(* through the store operations of CRUDModel.add one at a time.            *)
(***************************************************************************)

NoDocument == [id |-> NoInt, name |-> None]

Begun == Len(calls) + Cardinality({c \in Clients : pc[c] = "increment"})

\* add up to the first store operation: validate_insert, and ValidationFailed
\* when it reports errors.
add_validate(c, document) ==
    /\ pc[c] = "idle"
    /\ Begun < MaxCalls
    /\ IF Inc_validate_insert(document) # {}
       THEN UNCHANGED <<pc, local>>
       ELSE /\ pc' = [pc EXCEPT ![c] = "increment"]
            /\ local' = [local EXCEPT ![c] = document]
    /\ UNCHANGED <<verVars, incVars, audVars, plainVars, otherVars>>

\* deserialize_insert: the find_one_and_update of _increment.
add_increment(c) ==
    /\ pc[c] = "increment"
    /\ LET d == Inc_deserialize_insert(Cls, local[c])
       IN /\ counters' = d.counters
          /\ local' = [local EXCEPT ![c] = d.document]
          /\ calls' = Append(calls,
                 IncCall("add", "assigned", d.document.id, local[c].id))
    /\ pc' = [pc EXCEPT ![c] = "insert"]
    /\ UNCHANGED <<verVars, incCollection, audVars, plainVars, otherVars>>

\* _insert_one: the insert_one, then the return or ValidationFailed.
add_insert(c) ==
    /\ pc[c] = "insert"
    /\ incCollection' = Inc_insert_one(incCollection, local[c]).coll
    /\ pc' = [pc EXCEPT ![c] = "idle"]
    /\ local' = [local EXCEPT ![c] = NoDocument]
    /\ UNCHANGED <<verVars, counters, calls, audVars, plainVars, otherVars>>

(***************************************************************************)
(* Audited model (test_mongo_controller_audit_int.py):                     *)
(*   class TestModel: __tablename__ = "test"; key = Column(int)            *)
(*   CRUDController(TestModel, audit=True)                                 *)
(* The collection has no unique index and the model no primary key.  The   *)
(* audit model itself (audit_mongo.py) is modelled from its specification: *)
(* one record per audited document, carrying the document's fields, the    *)
(* action and the next value of a revision counter scoped to the           *)
(* collection.                                                             *)
(***************************************************************************)

AuditKeys == {1, 2}                     \* values of the field "key"
EmptyDocument == [key |-> NoInt]        \* a document without any field
AudDocuments == [key : AuditKeys] \cup {EmptyDocument}
AudFilters == [key : AuditKeys \cup {NoInt}]
AudBatchDocuments == {[key |-> 1], EmptyDocument}
AudBatches == UNION {[1..n -> AudBatchDocuments] : n \in 0..MaxBatch}

AuditCls(aud, cnt) == [collection |-> aud, name |-> "audit_test", counters |-> cnt]

\* The audit model's record of one action on one document.
audit_action(aud, cnt, action, document) ==
    LET r == CRUDModel_increment(AuditCls(aud, cnt), "revision")
    IN [audit |-> Append(aud, [audit_action |-> action, key |-> document.key,
                               revision |-> r.value]),
        counters |-> r.counters]

\* audit_model.audit_add
audit_add(aud, cnt, document) == audit_action(aud, cnt, "Insert", document)

\* audit_model.audit_update
audit_update(aud, cnt, document) == audit_action(aud, cnt, "Update", document)

\* audit_model.audit_remove(**filters): one Delete record per document the
\* filters match, in natural order.
RECURSIVE audit_remove(_, _, _)
audit_remove(aud, cnt, matched) ==
    IF matched = <<>>
    THEN [audit |-> aud, counters |-> cnt]
    ELSE LET a == audit_action(aud, cnt, "Delete", Head(matched))
         IN audit_remove(a.audit, a.counters, Tail(matched))

AudMatches(d, filters) == filters.key = NoInt \/ d.key = filters.key

MatchedBy(coll, filters) == SelectSeq(coll, LAMBDA d : AudMatches(d, filters))

\* CRUDModel._insert_one: insert_one, then audit_add when audit_model is set.
CRUDModel_insert_one(coll, aud, cnt, document) ==
    LET a == audit_add(aud, cnt, document)
    IN [coll |-> Append(coll, document), audit |-> a.audit, counters |-> a.counters]

\* CRUDModel._insert_many: insert_many, then audit_add for each document of
\* the list when audit_model is set.
RECURSIVE AuditEachAdded(_, _, _)
AuditEachAdded(aud, cnt, documents) ==
    IF documents = <<>>
    THEN [audit |-> aud, counters |-> cnt]
    ELSE LET a == audit_add(aud, cnt, Head(documents))
         IN AuditEachAdded(a.audit, a.counters, Tail(documents))

CRUDModel_insert_many(coll, aud, cnt, documents) ==
    LET a == AuditEachAdded(aud, cnt, documents)
    IN [coll |-> coll \o documents, audit |-> a.audit, counters |-> a.counters]

\* CRUDModel._update_one on a model without primary key: document_keys is
\* empty, so find_one and find_one_and_update each take a document of the
\* store's choosing; position i is the one find_one_and_update modifies.
CRUDModel_update_one(coll, aud, cnt, document, i) ==
    LET new == [coll[i] EXCEPT !.key = document.key]
        a == audit_update(aud, cnt, new)
    IN [coll |-> [coll EXCEPT ![i] = new], audit |-> a.audit, counters |-> a.counters]

\* Mutant: _delete_many that deletes without calling audit_remove.
DeleteManyWithoutAudit(coll, aud, cnt, filters) ==
    [coll |-> SelectSeq(coll, LAMBDA d : ~AudMatches(d, filters)),
     audit |-> aud, counters |-> cnt,
     n |-> Len(MatchedBy(coll, filters))]

\* CRUDModel._delete_many: audit_remove(**filters) when audit_model is set,
\* then delete_many(filters).deleted_count.
CRUDModel_delete_many(coll, aud, cnt, filters) ==
    LET a == audit_remove(aud, cnt, MatchedBy(coll, filters))
    IN [coll |-> SelectSeq(coll, LAMBDA d : ~AudMatches(d, filters)),
        audit |-> a.audit, counters |-> a.counters,
        n |-> Len(MatchedBy(coll, filters))]

Op(op, key, outcome) == [op |-> op, key |-> key, outcome |-> outcome]

OnlyAudited == UNCHANGED <<verVars, incCollection, calls, conVars, pending, plainVars, otherVars>>

\* CRUDModel.add on the audited model
Audited_add(document) ==
    /\ OnlyAudited
    /\ Len(ops) < MaxOps
    /\ IF document = EmptyDocument
       THEN /\ ops' = Append(ops, Op("add", document.key, "invalid"))
            /\ UNCHANGED <<audCollection, audit, counters>>
       ELSE LET r == CRUDModel_insert_one(audCollection, audit, counters, document)
            IN /\ audCollection' = r.coll
               /\ audit' = r.audit
               /\ counters' = r.counters
               /\ ops' = Append(ops, Op("add", document.key, "ok"))

\* CRUDModel.add_all on the audited model
Audited_add_all(documents) ==
    /\ OnlyAudited
    /\ Len(ops) < MaxOps
    /\ IF documents = <<>>
       THEN /\ ops' = Append(ops, Op("add_all", NoInt, "nodata"))
            /\ UNCHANGED <<audCollection, audit, counters>>
       ELSE IF \E i \in DOMAIN documents : documents[i] = EmptyDocument
       THEN /\ ops' = Append(ops, Op("add_all", NoInt, "invalid"))
            /\ UNCHANGED <<audCollection, audit, counters>>
       ELSE LET r == CRUDModel_insert_many(audCollection, audit, counters, documents)
            IN /\ audCollection' = r.coll
               /\ audit' = r.audit
               /\ counters' = r.counters
               /\ ops' = Append(ops, Op("add_all", NoInt, "ok"))

\* CRUDModel.update on the audited model
Audited_update(document) ==
    /\ OnlyAudited
    /\ Len(ops) < MaxOps
    /\ IF document = EmptyDocument
       THEN /\ ops' = Append(ops, Op("update", document.key, "invalid"))
            /\ UNCHANGED <<audCollection, audit, counters>>
       ELSE IF audCollection = <<>>
       THEN /\ ops' = Append(ops, Op("update", document.key, "notfound"))
            /\ UNCHANGED <<audCollection, audit, counters>>
       ELSE \E i \in DOMAIN audCollection :
              LET r == CRUDModel_update_one(audCollection, audit, counters, document, i)
              IN /\ audCollection' = r.coll
                 /\ audit' = r.audit
                 /\ counters' = r.counters
                 /\ ops' = Append(ops, Op("update", document.key, "ok"))

\* CRUDModel.remove on the audited model
Audited_remove(filters) ==
    /\ OnlyAudited
    /\ Len(ops) < MaxOps
    /\ LET r == CRUDModel_delete_many(audCollection, audit, counters, filters)
       IN /\ audCollection' = r.coll
          /\ audit' = r.audit
          /\ counters' = r.counters
          /\ ops' = Append(ops, Op("remove", filters.key, "ok"))

(***************************************************************************)
(* The store paths of the audited model, one store operation at a time:    *)
(* each of _insert_one, _update_one and _delete_many makes one operation   *)
(* on the model's collection and one call on the audit model.              *)
(***************************************************************************)

\* pending.written tells whether the operation on the model's collection has
\* been made; pending.base is the length of the audit collection when the
\* call began.
Pending(op, key, written) ==
    [op |-> op, key |-> key, base |-> Len(audit), written |-> written]

NoCall == [op |-> "none", key |-> NoInt, base |-> 0, written |-> FALSE]

OnlyAuditedSteps == UNCHANGED <<verVars, incCollection, calls, conVars, plainVars, otherVars>>

Returned(op) ==
    /\ ops' = Append(ops, Op(op, pending.key, "ok"))
    /\ pending' = NoCall

\* _insert_one, first statement: cls.__collection__.insert_one(document)
insert_one_step(document) ==
    /\ OnlyAuditedSteps
    /\ pending = NoCall
    /\ Len(ops) < MaxOps
    /\ document # EmptyDocument
    /\ audCollection' = Append(audCollection, document)
    /\ pending' = Pending("add", document.key, TRUE)
    /\ UNCHANGED <<audit, counters, ops>>

\* _insert_one, second statement: cls.audit_model.audit_add(document)
audit_add_step ==
    /\ OnlyAuditedSteps
    /\ pending.op = "add"
    /\ LET a == audit_add(audit, counters, [key |-> pending.key])
       IN audit' = a.audit /\ counters' = a.counters
    /\ Returned("add")
    /\ UNCHANGED audCollection

\* _update_one up to find_one_and_update, which modifies the document at
\* position i.
find_one_and_update_step(document, i) ==
    /\ OnlyAuditedSteps
    /\ pending = NoCall
    /\ Len(ops) < MaxOps
    /\ document # EmptyDocument
    /\ i \in DOMAIN audCollection
    /\ audCollection' = [audCollection EXCEPT ![i] = [@ EXCEPT !.key = document.key]]
    /\ pending' = Pending("update", document.key, TRUE)
    /\ UNCHANGED <<audit, counters, ops>>

\* _update_one, after it: cls.audit_model.audit_update(new_document)
audit_update_step ==
    /\ OnlyAuditedSteps
    /\ pending.op = "update"
    /\ LET a == audit_update(audit, counters, [key |-> pending.key])
       IN audit' = a.audit /\ counters' = a.counters
    /\ Returned("update")
    /\ UNCHANGED audCollection

\* _delete_many, first statement: cls.audit_model.audit_remove(**filters)
audit_remove_step(filters) ==
    /\ OnlyAuditedSteps
    /\ pending = NoCall
    /\ Len(ops) < MaxOps
    /\ LET a == audit_remove(audit, counters, MatchedBy(audCollection, filters))
       IN audit' = a.audit /\ counters' = a.counters
    /\ pending' = Pending("remove", filters.key, FALSE)
    /\ UNCHANGED <<audCollection, ops>>

\* _delete_many, second statement: cls.__collection__.delete_many(filters)
delete_many_step ==
    /\ OnlyAuditedSteps
    /\ pending.op = "remove"
    /\ audCollection' = SelectSeq(audCollection,
                            LAMBDA d : ~AudMatches(d, [key |-> pending.key]))
    /\ Returned("remove")
    /\ UNCHANGED <<audit, counters>>

(***************************************************************************)
(* Plain model with a primary key, a nullable field and two fields with a  *)
(* default value, declared with or without audit (database_mongo.py):      *)
(*   class PlainModel(CRUDModel, table_name='plain', audit=...)            *)
(*     key   = Column(str, is_primary_key=True,                            *)
(*                    index_type=IndexType.Unique)                         *)
(*     value = Column(str)                                                 *)
(*     opt   = Column(str, default_value='d')                              *)
(*     note  = Column(str, default_value='')                               *)
(* A document is a function from the names it holds to their values, so a  *)
(* field that is absent and a field that is None are different documents.  *)
(***************************************************************************)

\* Column.__init__: the attributes of the declared fields.
Column(name, is_primary_key, default_value) ==
    [name |-> name, is_primary_key |-> is_primary_key,
     default_value |-> default_value, should_auto_increment |-> FALSE]

Fields == {Column("key", TRUE, None), Column("value", FALSE, None),
           Column("opt", FALSE, "d"), Column("note", FALSE, "")}

FieldNames == {field.name : field \in Fields}

\* Column._to_get_default_value: `if default_value:` keeps a declared default
\* value only when it is truthy; the field's default is None otherwise.
get_default_value(field) ==
    IF field.default_value \in {None, ""} THEN None ELSE field.default_value

\* is_nullable as the keyword argument leaves it: True.
NullableAsDeclared(field) == TRUE

\* Column.__init__: with is_nullable left to its default, a field is nullable
\* unless it is a primary key without default value and not auto incremented.
is_nullable(field) ==
    \/ ~field.is_primary_key
    \/ get_default_value(field) # None
    \/ field.should_auto_increment

NotAStr == "<int>"          \* a submitted value that is not a str
EmptyDict == [n \in {} |-> None]

\* dict.get(name): None when the name is absent.
Get(document, name) ==
    IF name \in DOMAIN document THEN document[name] ELSE None

\* The document restricted to the names in S.
Restrict(document, S) == [n \in DOMAIN document \cap S |-> document[n]]

\* {**document, **other}
Overridden(document, other) ==
    [n \in DOMAIN document \cup DOMAIN other |->
        IF n \in DOMAIN other THEN other[n] ELSE document[n]]

\* Column._validate_value for a str field without choices.
Column_validate_value(field, value) ==
    IF value = NotAStr THEN {<<field.name, "Not a valid str.">>} ELSE {}

\* Column.validate_insert and Column.validate_update (same body).
Column_validate_insert(field, document) ==
    IF Get(document, field.name) = None
    THEN IF ~is_nullable(field)
         THEN {<<field.name, "Missing data for required field.">>}
         ELSE {}
    ELSE Column_validate_value(field, Get(document, field.name))

\* CRUDModel.validate_insert
CRUDModel_validate_insert(document) ==
    IF document = EmptyDict
    THEN {<<"", "No data provided.">>}
    ELSE UNION {Column_validate_insert(field, document) : field \in Fields}

\* validate_update without the primary keys the document does not hold.
ValidateUpdateHeldFieldsOnly(document) ==
    IF document = EmptyDict
    THEN {<<"", "No data provided.">>}
    ELSE UNION {Column_validate_insert(field, document) :
                  field \in {f \in Fields : f.name \in DOMAIN document}}

\* CRUDModel.validate_update: the fields the document holds and the primary
\* keys are validated.
CRUDModel_validate_update(document) ==
    IF document = EmptyDict
    THEN {<<"", "No data provided.">>}
    ELSE UNION {Column_validate_insert(field, document) :
                  field \in {f \in Fields : f.name \in DOMAIN document
                                              \/ f.is_primary_key}}

\* deserialize_insert without _remove_dot_notation: the names that are not
\* fields stay in the document.
DeserializeInsertKeepingUnknown(document) ==
    Restrict(document, {n \in DOMAIN document : Get(document, n) # None})

\* CRUDModel._remove_dot_notation, then Column.deserialize_insert of every
\* field: names that are not fields are deleted, fields that are None are
\* popped, a str value is kept as it is.
CRUDModel_deserialize_insert(document) ==
    Restrict(document, {n \in FieldNames : Get(document, n) # None})

\* CRUDModel.deserialize_update: the same on the fields the document holds.
CRUDModel_deserialize_update(document) ==
    Restrict(document, {n \in FieldNames : Get(document, n) # None})

\* CRUDModel.serialize: {} for no document; otherwise Column.serialize puts
\* the default value in every field that is None or absent, and the names
\* that are not fields (_id among them) are deleted.
CRUDModel_serialize(document) ==
    IF document = EmptyDict
    THEN EmptyDict
    ELSE [n \in FieldNames |->
            IF Get(document, n) = None
            THEN get_default_value(CHOOSE field \in Fields : field.name = n)
            ELSE document[n]]

\* The primary key entries of a document / the filters after
\* deserialize_query: entries on declared fields that are not None.
PrimaryKeyNames == {field.name : field \in {f \in Fields : f.is_primary_key}}

\* CRUDModel._to_primary_keys_model
to_primary_keys_model(document) == Restrict(document, PrimaryKeyNames)

\* CRUDModel.validate_query
CRUDModel_validate_query(filters) ==
    UNION {IF Get(filters, field.name) = None THEN {}
           ELSE Column_validate_value(field, filters[field.name]) :
             field \in {f \in Fields : f.name \in DOMAIN filters}}

\* CRUDModel.deserialize_query: unknown names are deleted and, no field
\* having allow_none_as_filter, None entries are popped.
CRUDModel_deserialize_query(filters) ==
    Restrict(filters, {n \in FieldNames : Get(filters, n) # None})

\* The store's matching of a document against an equality filter.
Found(coll, filters) ==
    {d \in coll : \A n \in DOMAIN filters : Get(d, n) = filters[n]}

\* The document as the driver leaves it after insert_one: with its _id.
WithId(document) == Overridden(document, [n \in {"_id"} |-> "ObjectId"])

\* Collection.insert_one under the unique index on key.
Collection_insert_one(coll, document) ==
    IF CreateIndexUnique /\ \E o \in coll : Get(o, "key") = Get(document, "key")
    THEN [ok |-> FALSE, coll |-> coll]
    ELSE [ok |-> TRUE, coll |-> coll \cup {WithId(document)}]

\* Collection.insert_many (ordered): the first rejected document stops the
\* batch (BulkWriteError); the documents inserted before it stay.
RECURSIVE Collection_insert_many(_, _)
Collection_insert_many(coll, documents) ==
    IF documents = <<>>
    THEN [ok |-> TRUE, coll |-> coll]
    ELSE LET r == Collection_insert_one(coll, Head(documents))
         IN IF r.ok THEN Collection_insert_many(r.coll, Tail(documents)) ELSE r

\* _insert_one with the audit record written before the insert is attempted.
InsertOneAuditFirst(coll, aud, cnt, document) ==
    LET r == Collection_insert_one(coll, document)
        a == IF audit_model THEN audit_add(aud, cnt, document)
             ELSE [audit |-> aud, counters |-> cnt]
    IN [ok |-> r.ok, coll |-> r.coll, audit |-> a.audit,
        counters |-> a.counters, attempts |-> 1]

\* CRUDModel._insert_one on the plain model: insert_one, then audit_add when
\* audit_model is set.  attempts counts the calls of insert_one.
PlainModel_insert_one(coll, aud, cnt, document) ==
    LET r == Collection_insert_one(coll, document)
        a == IF audit_model THEN audit_add(aud, cnt, document)
             ELSE [audit |-> aud, counters |-> cnt]
    IN IF r.ok
       THEN [ok |-> TRUE, coll |-> r.coll, audit |-> a.audit,
             counters |-> a.counters, attempts |-> 1]
       ELSE [ok |-> FALSE, coll |-> r.coll, audit |-> aud,
             counters |-> cnt, attempts |-> 1]

\* CRUDModel._insert_many on the plain model: insert_many, then audit_add
\* for each document when audit_model is set.
PlainModel_insert_many(coll, aud, cnt, documents) ==
    LET r == Collection_insert_many(coll, documents)
        a == IF audit_model THEN AuditEachAdded(aud, cnt, documents)
             ELSE [audit |-> aud, counters |-> cnt]
    IN IF r.ok
       THEN [ok |-> TRUE, coll |-> r.coll, audit |-> a.audit, counters |-> a.counters]
       ELSE [ok |-> FALSE, coll |-> r.coll, audit |-> aud, counters |-> cnt]

\* _update_one replacing the stored document by the submitted one.
UpdateOneReplace(coll, aud, cnt, previous, document) ==
    LET new == WithId(document)
        a == IF audit_model THEN audit_update(aud, cnt, new)
             ELSE [audit |-> aud, counters |-> cnt]
    IN [coll |-> (coll \ {previous}) \cup {new}, new |-> new,
        audit |-> a.audit, counters |-> a.counters]

\* CRUDModel._update_one on the plain model, for a document whose primary
\* key selects previous: find_one_and_update with '$set', then audit_update.
PlainModel_update_one(coll, aud, cnt, previous, document) ==
    LET new == Overridden(previous, document)
        a == IF audit_model THEN audit_update(aud, cnt, new)
             ELSE [audit |-> aud, counters |-> cnt]
    IN [coll |-> (coll \ {previous}) \cup {new}, new |-> new,
        audit |-> a.audit, counters |-> a.counters]

\* CRUDModel._delete_many on the plain model: audit_remove(**filters) over
\* the matching documents in the order `matched`, then delete_many.
PlainModel_delete_many(coll, aud, cnt, filters, matched) ==
    LET a == IF audit_model THEN audit_remove(aud, cnt, matched)
             ELSE [audit |-> aud, counters |-> cnt]
    IN [coll |-> coll \ Found(coll, filters), n |-> Cardinality(Found(coll, filters)),
        audit |-> a.audit, counters |-> a.counters]

(***************************************************************************)
(* The calls a client can make on the plain model.  A result holds         *)
(*   outcome   "ok", "ValidationFailed" or "ModelCouldNotBeFound"          *)
(*   message   the message of ValidationFailed, when it has one            *)
(*   errors    the errors of ValidationFailed: pairs <<field, message>>    *)
(*   batch_errors   for add_all: triples <<index, field, message>>         *)
(*   returned  the documents returned, in the order returned               *)
(*   count     the number returned by remove                               *)
(*   attempts  the number of insert_one calls made                         *)
(* On the audited model, calls that write are made while the audit         *)
(* collection holds fewer than MaxOps records.                             *)
(***************************************************************************)

SubmittedNames == FieldNames \cup {"extra"}

SubmittedValues(n) ==
    CASE n = "key" -> Keys
      [] n = "value" -> Values
      [] n = "extra" -> {"e"}

\* Documents with any of key, value and the undeclared name extra, and the
\* documents with a None, a value that is not a str, or the field opt.
PlainDocuments ==
    UNION {{d \in [S -> Keys \cup Values \cup {"e"}] :
              \A n \in S : d[n] \in SubmittedValues(n)} :
             S \in SUBSET {"key", "value", "extra"}}
    \cup {[key |-> None], [key |-> None, value |-> "v1"],
          [key |-> "a", value |-> None], [key |-> "a", value |-> NotAStr],
          [key |-> "a", opt |-> "o1"], [key |-> "b", value |-> "v1", opt |-> "o1"]}

PlainBatchDocuments ==
    {[key |-> "a", value |-> "v1"], [key |-> "b", extra |-> "e"], [value |-> "v1"]}

PlainBatches == UNION {[1..n -> PlainBatchDocuments] : n \in 0..MaxBatch}

PlainFilters ==
    UNION {{f \in [S -> Keys \cup {"v1", None, NotAStr}] :
              /\ "key" \in S => f["key"] \in Keys
              /\ "value" \in S => f["value"] \in {"v1", None, NotAStr}} :
             S \in SUBSET {"key", "value"}}
    \cup {[key |-> "a", extra |-> "e"]}

Result(op, outcome, message, errors, returned) ==
    [op |-> op, outcome |-> outcome, message |-> message, errors |-> errors,
     batch_errors |-> {}, returned |-> returned, count |-> 0, attempts |-> 0]

NoResult ==
    [op |-> "none", outcome |-> "ok", message |-> "", errors |-> {},
     batch_errors |-> {}, returned |-> <<>>, count |-> 0, attempts |-> 0]

OnlyPlain ==
    UNCHANGED <<verVars, incCollection, calls, conVars, audCollection, ops, pending,
                otherVars>>

\* CRUDModel.add
Plain_add(document) ==
    /\ OnlyPlain
    /\ Len(audit) < MaxOps
    /\ UNCHANGED audit_model
    /\ LET errors == CRUDModel_validate_insert(document)
           deserialized == CRUDModel_deserialize_insert(document)
           r == PlainModel_insert_one(plain, audit, counters, deserialized)
       IN IF errors # {}
          THEN /\ plainLast' = Result("add", "ValidationFailed", "", errors, <<>>)
               /\ UNCHANGED <<plain, audit, counters>>
          ELSE /\ plain' = r.coll
               /\ audit' = r.audit
               /\ counters' = r.counters
               /\ plainLast' =
                    IF r.ok
                    THEN [Result("add", "ok", "", {},
                                 <<CRUDModel_serialize(WithId(deserialized))>>)
                            EXCEPT !.attempts = r.attempts]
                    ELSE [Result("add", "ValidationFailed",
                                 "This document already exists.", {}, <<>>)
                            EXCEPT !.attempts = r.attempts]

\* CRUDModel.add_all
Plain_add_all(documents) ==
    /\ OnlyPlain
    /\ Len(audit) < MaxOps
    /\ UNCHANGED audit_model
    /\ LET batch_errors ==
               UNION {{<<index - 1, e[1], e[2]>> :
                         e \in CRUDModel_validate_insert(documents[index])} :
                      index \in DOMAIN documents}
           new_documents == [i \in DOMAIN documents |->
                               CRUDModel_deserialize_insert(documents[i])]
           r == PlainModel_insert_many(plain, audit, counters, new_documents)
       IN IF documents = <<>>
          THEN /\ plainLast' = Result("add_all", "ValidationFailed",
                                      "No data provided.", {}, <<>>)
               /\ UNCHANGED <<plain, audit, counters>>
          ELSE IF batch_errors # {}
          THEN /\ plainLast' = [Result("add_all", "ValidationFailed", "", {}, <<>>)
                                  EXCEPT !.batch_errors = batch_errors]
               /\ UNCHANGED <<plain, audit, counters>>
          ELSE /\ plain' = r.coll
               /\ audit' = r.audit
               /\ counters' = r.counters
               /\ plainLast' =
                    IF r.ok
                    THEN Result("add_all", "ok", "", {},
                                [i \in DOMAIN new_documents |->
                                   CRUDModel_serialize(WithId(new_documents[i]))])
                    ELSE Result("add_all", "ValidationFailed",
                                "BulkWriteError details", {}, <<>>)

\* CRUDModel.update
Plain_update(document) ==
    /\ OnlyPlain
    /\ Len(audit) < MaxOps
    /\ UNCHANGED audit_model
    /\ LET errors == CRUDModel_validate_update(document)
           deserialized == CRUDModel_deserialize_update(document)
           found == Found(plain, to_primary_keys_model(deserialized))
       IN IF errors # {}
          THEN /\ plainLast' = Result("update", "ValidationFailed", "", errors, <<>>)
               /\ UNCHANGED <<plain, audit, counters>>
          ELSE IF found = {}
          THEN /\ plainLast' = Result("update", "ModelCouldNotBeFound", "", {}, <<>>)
               /\ UNCHANGED <<plain, audit, counters>>
          ELSE \E previous \in found :
                 LET r == PlainModel_update_one(plain, audit, counters,
                                                previous, deserialized)
                 IN /\ plain' = r.coll
                    /\ audit' = r.audit
                    /\ counters' = r.counters
                    /\ plainLast' = Result("update", "ok", "", {},
                                           <<CRUDModel_serialize(previous),
                                             CRUDModel_serialize(r.new)>>)

\* CRUDModel.remove
Plain_remove(filters) ==
    /\ OnlyPlain
    /\ Len(audit) < MaxOps
    /\ UNCHANGED audit_model
    /\ LET errors == CRUDModel_validate_query(filters)
           deserialized == CRUDModel_deserialize_query(filters)
       IN IF errors # {}
          THEN /\ plainLast' = Result("remove", "ValidationFailed", "", errors, <<>>)
               /\ UNCHANGED <<plain, audit, counters>>
          ELSE \E matched \in Orders(Found(plain, deserialized)) :
                 LET r == PlainModel_delete_many(plain, audit, counters,
                                                 deserialized, matched)
                 IN /\ plain' = r.coll
                    /\ audit' = r.audit
                    /\ counters' = r.counters
                    /\ plainLast' = [Result("remove", "ok", "", {}, <<>>)
                                       EXCEPT !.count = r.n]

\* get without the count of the matching documents: find_one alone.
GetFirstMatch(coll, filters) ==
    LET errors == CRUDModel_validate_query(filters)
        found == Found(coll, CRUDModel_deserialize_query(filters))
    IN IF errors # {}
       THEN {Result("get", "ValidationFailed", "", errors, <<>>)}
       ELSE IF found = {}
       THEN {Result("get", "ok", "", {}, <<CRUDModel_serialize(EmptyDict)>>)}
       ELSE {Result("get", "ok", "", {}, <<CRUDModel_serialize(document)>>) :
               document \in found}

\* CRUDModel.get: the results the call can have on collection coll.
CRUDModel_get(coll, filters) ==
    LET errors == CRUDModel_validate_query(filters)
        found == Found(coll, CRUDModel_deserialize_query(filters))
    IN IF errors # {}
       THEN {Result("get", "ValidationFailed", "", errors, <<>>)}
       ELSE IF Cardinality(found) > 1
       THEN {Result("get", "ValidationFailed",
                    "More than one result: Consider another filtering.", {}, <<>>)}
       ELSE IF found = {}
       THEN {Result("get", "ok", "", {}, <<CRUDModel_serialize(EmptyDict)>>)}
       ELSE {Result("get", "ok", "", {}, <<CRUDModel_serialize(document)>>) :
               document \in found}

\* A call of CRUDModel.get
Plain_get(filters) ==
    /\ OnlyPlain
    /\ UNCHANGED <<plain, audit, counters, audit_model>>
    /\ plainLast' \in CRUDModel_get(plain, filters)

\* CRUDModel.get_all, without limit and offset
Plain_get_all(filters) ==
    /\ OnlyPlain
    /\ UNCHANGED <<plain, audit, counters, audit_model>>
    /\ LET errors == CRUDModel_validate_query(filters)
           found == Found(plain, CRUDModel_deserialize_query(filters))
       IN IF errors # {}
          THEN plainLast' = Result("get_all", "ValidationFailed", "", errors, <<>>)
          ELSE \E documents \in Orders(found) :
                 plainLast' = Result("get_all", "ok", "", {},
                                 [i \in DOMAIN documents |->
                                    CRUDModel_serialize(documents[i])])

(***************************************************************************)
(* Conversion of one field value (database_mongo.py): _deserialize_value   *)
(* on the way in, Column.serialize on the way out, for fields of type      *)
(* datetime, date, Enum, ObjectId and str.  A value is a tagged tuple of   *)
(* strings: a str is the tuple of its parts, so that                       *)
(* '2017-05-30T01:05:45Z' is <<"2017-05-30", "T", "01:05:45", "Z">>.       *)
(***************************************************************************)

Str(parts) == [t |-> "str", v |-> parts]
DateTimeObject(day, time, tzinfo) == [t |-> "datetime", v |-> <<day, time, tzinfo>>]
DateObject(day) == [t |-> "date", v |-> <<day>>]
EnumObject(name) == [t |-> "Enum", v |-> <<name>>]
IntObject(digits) == [t |-> "int", v |-> <<digits>>]
ObjectIdObject(hex) == [t |-> "ObjectId", v |-> <<hex>>]

Days == {"2017-05-30", "2018-01-01"}
Times == {"00:00:00", "01:05:45"}
Midnight == "00:00:00"
Naive == ""                 \* tzinfo of a datetime without time zone
UTC == "UTC"                \* tzinfo of a datetime in UTC
EnumNames == {"Value1", "Value2"}
Hexes == {"5b2a0f", "5B2A0F"}

\* dateutil.parser.parse on the ISO 8601 strings of the model: a date, a
\* date and a time, a date and a time in UTC ('Z' or '+00:00').
parse(parts) ==
    CASE Len(parts) = 1 -> DateTimeObject(parts[1], Midnight, Naive)
      [] Len(parts) = 3 -> DateTimeObject(parts[1], parts[3], Naive)
      [] Len(parts) = 4 -> DateTimeObject(parts[1], parts[3], UTC)

\* datetime.isoformat: date, 'T', time, and the offset of an aware datetime.
isoformat(value) ==
    IF value.v[3] = UTC
    THEN Str(<<value.v[1], "T", value.v[2], "+00:00">>)
    ELSE Str(<<value.v[1], "T", value.v[2]>>)

\* The Enum of the model: Value1 = 1, Value2 = 2.
EnumValue(name) == IF name = "Value1" THEN "1" ELSE "2"
EnumName(digits) == IF digits = "1" THEN "Value1" ELSE "Value2"

\* str(ObjectId(hex)): the hexadecimal digits in lower case.
Lower(hex) == IF hex = "5B2A0F" THEN "5b2a0f" ELSE hex

\* Column._deserialize_value
Column_deserialize_value(field_type, value) ==
    CASE field_type = "datetime" ->
            IF value.t = "str" THEN parse(value.v) ELSE value
      [] field_type = "date" ->
            IF value.t = "str" THEN parse(value.v)
            ELSE IF value.t \in {"date", "datetime"}
            THEN DateTimeObject(value.v[1], Midnight, Naive)
            ELSE value
      [] field_type = "Enum" ->
            IF value.t = "Enum" THEN IntObject(EnumValue(value.v[1]))
            ELSE IF value.t = "str" THEN IntObject(EnumValue(value.v[1]))
            ELSE value
      [] field_type = "ObjectId" ->
            IF value.t # "ObjectId" THEN ObjectIdObject(Lower(value.v[1]))
            ELSE value
      [] OTHER -> value

\* Column.serialize with the date branch of the datetime branch: isoformat
\* of the whole value.
SerializeDateAsDatetime(field_type, value) ==
    CASE field_type \in {"datetime", "date"} -> isoformat(value)
      [] field_type = "Enum" -> Str(<<EnumName(value.v[1])>>)
      [] field_type = "ObjectId" -> Str(<<value.v[1]>>)
      [] OTHER -> value

\* Column.serialize of a value that is not None.
Column_serialize_value(field_type, value) ==
    CASE field_type = "datetime" -> isoformat(value)
      [] field_type = "date" -> Str(<<value.v[1]>>)
      [] field_type = "Enum" -> Str(<<EnumName(value.v[1])>>)
      [] field_type = "ObjectId" -> Str(<<value.v[1]>>)
      [] OTHER -> value

\* The ISO 8601 strings of the model.
DateStrings == {Str(<<d>>) : d \in Days}
DateTimeStrings ==
    {Str(<<d, "T", t>>) : d \in Days, t \in Times}
    \cup {Str(<<d, "T", t, z>>) : d \in Days, t \in Times, z \in {"Z", "+00:00"}}

\* The values that pass _validate_value for a field of the given type.
ValidValues(field_type) ==
    CASE field_type = "datetime" ->
            DateStrings \cup DateTimeStrings
            \cup {DateTimeObject(d, t, Naive) : d \in Days, t \in Times}
      [] field_type = "date" ->
            DateStrings \cup DateTimeStrings \cup {DateObject(d) : d \in Days}
            \cup {DateTimeObject(d, t, Naive) : d \in Days, t \in Times}
      [] field_type = "Enum" ->
            {Str(<<n>>) : n \in EnumNames} \cup {EnumObject(n) : n \in EnumNames}
      [] field_type = "ObjectId" ->
            {Str(<<h>>) : h \in Hexes} \cup {ObjectIdObject("5b2a0f")}
      [] field_type = "str" -> {Str(<<"v1">>), Str(<<"v2">>)}

FieldTypes == {"datetime", "date", "Enum", "ObjectId", "str"}

\* conv.done counts the conversions made; after two of them conv.once holds
\* what the first deserialize and serialize returned.
Conversion(field_type, X, done, value, once) ==
    [field_type |-> field_type, X |-> X, done |-> done, value |-> value,
     once |-> once]

NoConversion == Conversion("none", Str(<<>>), 0, Str(<<>>), Str(<<>>))

OnlyConversion ==
    UNCHANGED <<verVars, incVars, conVars, audVars, plainVars, listVars, dpVars,
                upd>>

\* A valid value X is submitted for a field.
Conv_submit(field_type, X) ==
    /\ OnlyConversion
    /\ conv = NoConversion
    /\ conv' = Conversion(field_type, X, 0, X, Str(<<>>))

\* Column.deserialize_insert on the value: _deserialize_value
Conv_deserialize ==
    /\ OnlyConversion
    /\ conv.field_type # "none"
    /\ conv.done \in {0, 2}
    /\ conv' = [conv EXCEPT
                  !.done = @ + 1,
                  !.value = Column_deserialize_value(conv.field_type, conv.value)]

\* Column.serialize on the value
Conv_serialize ==
    /\ OnlyConversion
    /\ conv.done \in {1, 3}
    /\ LET value == Column_serialize_value(conv.field_type, conv.value)
       IN conv' = [conv EXCEPT
                     !.done = @ + 1,
                     !.value = value,
                     !.once = IF conv.done = 1 THEN value ELSE @]

(***************************************************************************)
(* Model with a list field (database_mongo.py), as declared in             *)
(* test_mongo_controller_string_list.py with a unique index on its key:    *)
(*   key        = Column(is_primary_key=True, index_type=IndexType.Unique) *)
(*   list_field = ListColumn(Column(), sorted=True)                        *)
(* Submitted documents hold both fields; an item of the list can be None.  *)
(***************************************************************************)

ListItems == {"a", "b", "c"}

\* ListColumn.__init__: field_type is popped and the keyword arguments go to
\* Column.__init__, which pops the ones it knows and ignores the others:
\* `sorted` leaves no attribute on the field.
ListColumn(name, keywords) ==
    [name |-> name, list_item_column |-> Column(name, FALSE, None),
     is_primary_key |-> FALSE, default_value |-> None,
     should_auto_increment |-> FALSE]

list_field == ListColumn("list_field", [sorted |-> TRUE])

\* ListColumn.validate_insert and validate_update: the errors of the items,
\* keyed by field name and position.
ListColumn_validate_insert(field, values) ==
    UNION {{<<field.name, index - 1, e[2]>> :
              e \in Column_validate_insert(field.list_item_column,
                                           [n \in {field.name} |-> values[index]])} :
           index \in DOMAIN values}

\* ListColumn.deserialize_insert and deserialize_update: every item goes
\* through Column.deserialize_insert, which pops an item that is None; the
\* items are appended in the order of the submitted list.
ListColumn_deserialize_insert(field, values) ==
    SelectSeq(values, LAMBDA value : value # None)

\* ListColumn.serialize: every item goes through Column.serialize, in the
\* order of the stored list.
ListColumn_serialize(field, values) ==
    [i \in DOMAIN values |->
       IF values[i] = None THEN get_default_value(field.list_item_column)
       ELSE values[i]]

ListDocument(key, values) == [key |-> key, list_field |-> values]

\* Lists of up to MaxList items, and one list with an item that is None.
ListValues ==
    UNION {[1..n -> ListItems] : n \in 0..MaxList} \cup {<<"b", None, "a">>}

ListDocuments == {ListDocument("my_key", values) : values \in ListValues}

OnlyList ==
    UNCHANGED <<verVars, incVars, conVars, audVars, plainVars, dpVars, conv, upd>>

\* CRUDModel.add on the list model
List_add(document) ==
    /\ OnlyList
    /\ LET errors == ListColumn_validate_insert(list_field, document.list_field)
           deserialized ==
               ListDocument(document.key,
                   ListColumn_deserialize_insert(list_field, document.list_field))
           returned ==
               ListDocument(deserialized.key,
                   ListColumn_serialize(list_field, deserialized.list_field))
       IN IF errors # {}
          THEN /\ listLast' = Result("add", "ValidationFailed", "", errors, <<>>)
               /\ UNCHANGED listCollection
          ELSE IF \E o \in listCollection : o.key = deserialized.key
          THEN /\ listLast' = Result("add", "ValidationFailed",
                                     "This document already exists.", {}, <<>>)
               /\ UNCHANGED listCollection
          ELSE /\ listCollection' = listCollection \cup {deserialized}
               /\ listLast' = Result("add", "ok", "", {}, <<returned>>)

\* CRUDModel.update on the list model
List_update(document) ==
    /\ OnlyList
    /\ LET errors == ListColumn_validate_insert(list_field, document.list_field)
           deserialized ==
               ListDocument(document.key,
                   ListColumn_deserialize_insert(list_field, document.list_field))
           found == {o \in listCollection : o.key = deserialized.key}
       IN IF errors # {}
          THEN /\ listLast' = Result("update", "ValidationFailed", "", errors, <<>>)
               /\ UNCHANGED listCollection
          ELSE IF found = {}
          THEN /\ listLast' = Result("update", "ModelCouldNotBeFound", "", {}, <<>>)
               /\ UNCHANGED listCollection
          ELSE \E previous \in found :
                 /\ listCollection' =
                      (listCollection \ {previous}) \cup {deserialized}
                 /\ listLast' = Result("update", "ok", "", {},
                      <<ListDocument(previous.key,
                            ListColumn_serialize(list_field, previous.list_field)),
                        ListDocument(deserialized.key,
                            ListColumn_serialize(list_field, deserialized.list_field))>>)

\* CRUDModel.get_all on the list model, without filters
List_get_all ==
    /\ OnlyList
    /\ UNCHANGED listCollection
    /\ \E documents \in Orders(listCollection) :
         listLast' = Result("get_all", "ok", "", {},
                        [i \in DOMAIN documents |->
                           ListDocument(documents[i].key,
                               ListColumn_serialize(list_field,
                                                    documents[i].list_field))])

(***************************************************************************)
(* Model whose primary key has a default value (database_mongo.py), as     *)
(* declared in test_mongo_controller_default_pk.py with a unique index on  *)
(* its key:                                                                *)
(*   key      = Column(is_primary_key=True, default_value='test',          *)
(*                     index_type=IndexType.Unique)                        *)
(*   optional = Column()                                                   *)
(* The collection is the sequence of its documents in natural order:       *)
(* find_one and find_one_and_update take the first document that matches.  *)
(***************************************************************************)

DpFields == {Column("key", TRUE, "test"), Column("optional", FALSE, None)}

\* The names of the fields of a model.
NamesOf(fields) == {field.name : field \in fields}

\* CRUDModel.validate_insert on a model with the given fields.
Model_validate_insert(fields, document) ==
    IF document = EmptyDict
    THEN {<<"", "No data provided.">>}
    ELSE UNION {Column_validate_insert(field, document) : field \in fields}

\* CRUDModel.validate_update on a model with the given fields.
Model_validate_update(fields, document) ==
    IF document = EmptyDict
    THEN {<<"", "No data provided.">>}
    ELSE UNION {Column_validate_insert(field, document) :
                  field \in {f \in fields : f.name \in DOMAIN document
                                              \/ f.is_primary_key}}

\* CRUDModel.deserialize_insert and deserialize_update on a model with the
\* given fields: Column.deserialize_insert pops a field that is None or
\* absent, whether or not the field has a default value.
Model_deserialize_insert(fields, document) ==
    Restrict(document, {n \in NamesOf(fields) : Get(document, n) # None})

\* CRUDModel.serialize on a model with the given fields.
Model_serialize(fields, document) ==
    IF document = EmptyDict
    THEN EmptyDict
    ELSE [n \in NamesOf(fields) |->
            IF Get(document, n) = None
            THEN get_default_value(CHOOSE field \in fields : field.name = n)
            ELSE document[n]]

\* The store's matching of a document against an equality filter; a filter
\* on None matches a field that is null or absent.
MatchesFilter(d, filters) == \A n \in DOMAIN filters : Get(d, n) = filters[n]

\* Collection.find: the matching documents, in natural order.
Collection_find(coll, filters) ==
    SelectSeq(coll, LAMBDA d : MatchesFilter(d, filters))

\* CRUDModel._insert_one with Collection.insert_one under the unique index
\* on key, which indexes a document without key under null.
Dp_insert_one(coll, document) ==
    IF \E i \in DOMAIN coll : Get(coll[i], "key") = Get(document, "key")
    THEN [ok |-> FALSE, coll |-> coll]
    ELSE [ok |-> TRUE, coll |-> Append(coll, WithId(document))]

\* CRUDModel._update_one: find_one on the primary keys the deserialized
\* document holds, then find_one_and_update with '$set' on the same filter.
Dp_update_one(coll, document) ==
    LET document_keys == Restrict(document, {"key"})
        i == CHOOSE j \in DOMAIN coll :
                /\ MatchesFilter(coll[j], document_keys)
                /\ \A k \in 1..(j - 1) : ~MatchesFilter(coll[k], document_keys)
    IN [previous |-> coll[i], new |-> Overridden(coll[i], document),
        coll |-> [coll EXCEPT ![i] = Overridden(coll[i], document)]]

DpKeys == {"test", "test2"}
DpOptionals == {"o1", "o2"}

\* Documents with or without key and optional.
DpDocuments ==
    UNION {{d \in [S -> DpKeys \cup DpOptionals] :
              /\ "key" \in S => d["key"] \in DpKeys
              /\ "optional" \in S => d["optional"] \in DpOptionals} :
             S \in SUBSET {"key", "optional"}}

DpFilters == {EmptyDict} \cup {[key |-> k] : k \in DpKeys}

OnlyDp ==
    UNCHANGED <<verVars, incVars, conVars, audVars, plainVars, listVars, conv, upd>>

\* CRUDModel.add on the default-key model
Dp_add(document) ==
    /\ OnlyDp
    /\ LET errors == Model_validate_insert(DpFields, document)
           deserialized == Model_deserialize_insert(DpFields, document)
           r == Dp_insert_one(dpCollection, deserialized)
       IN IF errors # {}
          THEN /\ dpLast' = Result("add", "ValidationFailed", "", errors, <<>>)
               /\ UNCHANGED dpCollection
          ELSE /\ dpCollection' = r.coll
               /\ dpLast' =
                    IF r.ok
                    THEN Result("add", "ok", "", {},
                                <<Model_serialize(DpFields, WithId(deserialized))>>)
                    ELSE Result("add", "ValidationFailed",
                                "This document already exists.", {}, <<>>)

\* CRUDModel.update on the default-key model
Dp_update(document) ==
    /\ OnlyDp
    /\ LET errors == Model_validate_update(DpFields, document)
           deserialized == Model_deserialize_insert(DpFields, document)
           found == Collection_find(dpCollection, Restrict(deserialized, {"key"}))
           r == Dp_update_one(dpCollection, deserialized)
       IN IF errors # {}
          THEN /\ dpLast' = Result("update", "ValidationFailed", "", errors, <<>>)
               /\ UNCHANGED dpCollection
          ELSE IF found = <<>>
          THEN /\ dpLast' = Result("update", "ModelCouldNotBeFound", "", {}, <<>>)
               /\ UNCHANGED dpCollection
          ELSE /\ dpCollection' = r.coll
               /\ dpLast' = Result("update", "ok", "", {},
                                   <<Model_serialize(DpFields, r.previous),
                                     Model_serialize(DpFields, r.new)>>)

\* CRUDModel.remove on the default-key model: the filters hold values that
\* are not None on declared fields, which deserialize_query keeps.
Dp_remove(filters) ==
    /\ OnlyDp
    /\ dpCollection' = SelectSeq(dpCollection, LAMBDA d : ~MatchesFilter(d, filters))
    /\ dpLast' = [Result("remove", "ok", "", {}, <<>>)
                    EXCEPT !.count = Len(Collection_find(dpCollection, filters))]

\* CRUDModel.get_all on the default-key model
Dp_get_all(filters) ==
    /\ OnlyDp
    /\ UNCHANGED dpCollection
    /\ LET found == Collection_find(dpCollection, filters)
       IN dpLast' = Result("get_all", "ok", "", {},
                       [i \in DOMAIN found |-> Model_serialize(DpFields, found[i])])

(***************************************************************************)
(* _reset (database_mongo.py): every collection of the database is         *)
(* emptied with delete_many({}) and the counters whose _id is its name are *)
(* deleted.  The database holds the collections of the models above and    *)
(* the counters collection, which __init_subclass__ reaches as             *)
(* base['counters'].  delete_many leaves the indexes of a collection as    *)
(* they are.                                                               *)
(***************************************************************************)

CollectionNames ==
    {"versioned", "auto_increment", "test", "audit_test", "plain",
     "audit_plain", "list", "default_key", "counters"}

\* _reset_collection leaving the counters collection as it is.
ResetKeepingCounters(cnt, name) == cnt

\* _reset_collection on the counters: delete_many({}) when the collection is
\* the counters collection itself, and delete_many({'_id': collection.name})
\* on the counters collection.
reset_counters(cnt, name) ==
    IF name = "counters"
    THEN [k \in {} |-> 0]
    ELSE [k \in {c \in DOMAIN cnt : c[1] # name} |-> cnt[k]]

\* The counters after _reset_collection of every collection in names.
RECURSIVE ResetAll(_, _)
ResetAll(cnt, names) ==
    IF names = {}
    THEN cnt
    ELSE LET name == CHOOSE n \in names : TRUE
         IN ResetAll(reset_counters(cnt, name), names \ {name})

\* _reset
reset ==
    /\ Len(calls) < MaxCalls
    /\ collection' = {}
    /\ incCollection' = {}
    /\ audCollection' = <<>>
    /\ audit' = <<>>
    /\ plain' = {}
    /\ listCollection' = {}
    /\ dpCollection' = <<>>
    /\ counters' = ResetAll(counters, CollectionNames)
    /\ calls' = Append(calls, IncCall("reset", "ok", NoInt, NoInt))
    /\ UNCHANGED <<clock, nextId, last, conVars, ops, pending, plainLast,
                   audit_model, listLast, dpLast, conv, upd>>

(***************************************************************************)
(* Model queried with filters (database_mongo.py):                         *)
(*   key   = Column(str, is_primary_key=True,                              *)
(*                  index_type=IndexType.Unique)                           *)
(*   value = Column(str)                                                   *)
(*   flag  = Column(str, allow_none_as_filter=True)                        *)
(* declared without audit.  Its documents are kept in the variable plain,  *)
(* its last call in plainLast.                                             *)
(***************************************************************************)

\* Column.__init__ with allow_none_as_filter.
QueryColumn(name, is_primary_key, allow_none_as_filter) ==
    [name |-> name, is_primary_key |-> is_primary_key, default_value |-> None,
     should_auto_increment |-> FALSE,
     allow_none_as_filter |-> allow_none_as_filter]

QueryFields == {QueryColumn("key", TRUE, FALSE), QueryColumn("value", FALSE, FALSE),
                QueryColumn("flag", FALSE, TRUE)}

\* CRUDModel.validate_query on a model with the given fields:
\* Column.validate_query returns no error for None.
Model_validate_query(fields, filters) ==
    UNION {IF Get(filters, field.name) = None THEN {}
           ELSE Column_validate_value(field, filters[field.name]) :
             field \in {f \in fields : f.name \in DOMAIN filters}}

\* Column.deserialize_query without the test on allow_none_as_filter: the
\* entry is left in the filters.
DeserializeQueryKeepingNone(field, filters) == filters

\* Column.deserialize_query: a None entry is popped unless the field has
\* allow_none_as_filter; a str is left as it is.
Column_deserialize_query(field, filters) ==
    IF Get(filters, field.name) = None /\ ~field.allow_none_as_filter
    THEN Restrict(filters, DOMAIN filters \ {field.name})
    ELSE filters

\* The loop over the queried fields at the end of CRUDModel.deserialize_query.
RECURSIVE DeserializeQueriedFields(_, _)
DeserializeQueriedFields(fields, filters) ==
    IF fields = {} THEN filters
    ELSE LET field == CHOOSE f \in fields : TRUE
         IN DeserializeQueriedFields(fields \ {field},
                Column_deserialize_query(field, filters))

\* CRUDModel.deserialize_query on a model without dict field: the names that
\* are not declared fields are deleted, then every queried field
\* deserializes its entry.
Model_deserialize_query(fields, filters) ==
    LET known == Restrict(filters, NamesOf(fields))
    IN DeserializeQueriedFields({f \in fields : f.name \in DOMAIN known}, known)

\* Collection.insert_one under the unique index on key.
Query_insert_one(coll, document) ==
    IF \E o \in coll : Get(o, "key") = Get(document, "key")
    THEN [ok |-> FALSE, coll |-> coll]
    ELSE [ok |-> TRUE, coll |-> coll \cup {document}]

QueryDocuments ==
    UNION {{d \in [S -> Keys \cup {"v1", "f1"}] :
              /\ d["key"] \in Keys
              /\ "value" \in S => d["value"] = "v1"
              /\ "flag" \in S => d["flag"] = "f1"} :
             S \in {T \in SUBSET {"key", "value", "flag"} : "key" \in T}}

QueryFilters ==
    UNION {{f \in [S -> {"a", "v1", "f1", "e", None}] :
              /\ "key" \in S => f["key"] \in {"a", None}
              /\ "value" \in S => f["value"] \in {"v1", None}
              /\ "flag" \in S => f["flag"] \in {"f1", None}
              /\ "extra" \in S => f["extra"] = "e"} :
             S \in SUBSET {"key", "value", "flag", "extra"}}
    \cup {[value |-> NotAStr]}

\* A call with its filters, the filters the store was queried with, and
\* what the call returned.
Queried(op, outcome, filters, queried, returned, count) ==
    [op |-> op, outcome |-> outcome, filters |-> filters, queried |-> queried,
     returned |-> returned, count |-> count]

OnlyQuery ==
    UNCHANGED <<verVars, incVars, conVars, audVars, audit_model, otherVars>>

\* CRUDModel.add on the queried model
Query_add(document) ==
    /\ OnlyQuery
    /\ IF Model_validate_insert(QueryFields, document) # {}
       THEN /\ plainLast' = Queried("add", "ValidationFailed", EmptyDict, EmptyDict, <<>>, 0)
            /\ UNCHANGED plain
       ELSE LET r == Query_insert_one(plain, Model_deserialize_insert(QueryFields, document))
            IN /\ plain' = r.coll
               /\ plainLast' = Queried("add", IF r.ok THEN "ok" ELSE "ValidationFailed",
                                       EmptyDict, EmptyDict, <<>>, 0)

\* CRUDModel.remove on the queried model: validate_query, deserialize_query,
\* Collection.delete_many.
Query_remove(filters) ==
    /\ OnlyQuery
    /\ IF Model_validate_query(QueryFields, filters) # {}
       THEN /\ plainLast' = Queried("remove", "ValidationFailed", filters, EmptyDict, <<>>, 0)
            /\ UNCHANGED plain
       ELSE LET queried == Model_deserialize_query(QueryFields, filters)
                found == {d \in plain : MatchesFilter(d, queried)}
            IN /\ plain' = plain \ found
               /\ plainLast' = Queried("remove", "ok", filters, queried, <<>>,
                                       Cardinality(found))

\* CRUDModel.get on the queried model: count, then find_one.
Query_get(filters) ==
    /\ OnlyQuery
    /\ UNCHANGED plain
    /\ IF Model_validate_query(QueryFields, filters) # {}
       THEN plainLast' = Queried("get", "ValidationFailed", filters, EmptyDict, <<>>, 0)
       ELSE LET queried == Model_deserialize_query(QueryFields, filters)
                found == {d \in plain : MatchesFilter(d, queried)}
            IN IF Cardinality(found) > 1
               THEN plainLast' = Queried("get", "ValidationFailed", filters, queried, <<>>, 0)
               ELSE IF found = {}
               THEN plainLast' = Queried("get", "ok", filters, queried,
                                        <<Model_serialize(QueryFields, EmptyDict)>>, 0)
               ELSE \E d \in found :
                      plainLast' = Queried("get", "ok", filters, queried,
                                          <<Model_serialize(QueryFields, d)>>, 1)

\* CRUDModel.get_all on the queried model, without limit and offset: find,
\* in the order of the store.
Query_get_all(filters) ==
    /\ OnlyQuery
    /\ UNCHANGED plain
    /\ IF Model_validate_query(QueryFields, filters) # {}
       THEN plainLast' = Queried("get_all", "ValidationFailed", filters, EmptyDict, <<>>, 0)
       ELSE LET queried == Model_deserialize_query(QueryFields, filters)
                found == {d \in plain : MatchesFilter(d, queried)}
            IN \E documents \in Orders(found) :
                 plainLast' = Queried("get_all", "ok", filters, queried,
                     [i \in DOMAIN documents |-> Model_serialize(QueryFields, documents[i])],
                     Len(documents))

(***************************************************************************)
(* Specifications.                                                         *)
(***************************************************************************)

Start(with_audit) ==
    /\ collection = {}
    /\ clock = 0
    /\ nextId = 1
    /\ last = Call("none", "ok", 0)
    /\ incCollection = {}
    /\ counters = [k \in {} |-> 0]
    /\ calls = <<>>
    /\ pc = [c \in Clients |-> "idle"]
    /\ local = [c \in Clients |-> NoDocument]
    /\ audCollection = <<>>
    /\ audit = <<>>
    /\ ops = <<>>
    /\ pending = NoCall
    /\ plain = {}
    /\ plainLast = NoResult
    /\ audit_model = with_audit
    /\ listCollection = {}
    /\ listLast = NoResult
    /\ dpCollection = <<>>
    /\ dpLast = NoResult
    /\ conv = NoConversion
    /\ upd = [c \in UpdClients |-> NotUpdating]

\* The state after _reset, the plain model declared without audit.
Init == Start(FALSE)

\* The same, the plain model declared with audit=True.
InitPlainAudited == Start(TRUE)

\* Calls on the versioned model, one at a time.
Next ==
    \/ \E document \in Documents : add(document)
    \/ \E documents \in Batches : add_all(documents)
    \/ \E document \in Documents : update(document)
    \/ \E filters \in Filters : remove(filters)
    \/ \E filters \in RollbackFilters, validity \in Validities : rollback_to(filters, validity)

Spec == Init /\ [][Next]_vars

\* Calls on the auto-increment model, one at a time.
NextAutoIncrement ==
    \/ \E document \in IncDocuments : AutoIncrement_add(document)
    \/ \E filters \in IncFilters : AutoIncrement_remove(filters)

SpecAutoIncrement == Init /\ [][NextAutoIncrement]_vars

\* add, remove, get and get_all on the queried model.
NextQuery ==
    \/ \E document \in QueryDocuments : Query_add(document)
    \/ \E filters \in QueryFilters : Query_remove(filters)
    \/ \E filters \in QueryFilters : Query_get(filters)
    \/ \E filters \in QueryFilters : Query_get_all(filters)

SpecQuery == Init /\ [][NextQuery]_vars

\* add, update and remove on the versioned model with an auto-incremented
\* field, one at a time.
NextVersionedAutoIncrement ==
    \/ \E document \in VIncDocuments : VInc_add(document)
    \/ \E document \in VIncDocuments : VInc_update(document)
    \/ \E key \in Keys : remove([key |-> key, value |-> None])

SpecVersionedAutoIncrement == Init /\ [][NextVersionedAutoIncrement]_vars

\* add calls and update calls on the versioned model, the updates one store
\* operation at a time and one call at a time.
NextUpdateSteps ==
    \/ \E document \in UpdDocuments :
          (\A c \in UpdClients : ~InProgress(c)) /\ add(document)
    \/ \E c \in UpdClients, document \in UpdDocuments :
          (\A o \in UpdClients : ~InProgress(o)) /\ update_find(c, document)
    \/ \E c \in UpdClients : update_close(c)
    \/ \E c \in UpdClients : update_insert(c)

SpecUpdateSteps == Init /\ [][NextUpdateSteps]_vars

\* The same, the store operations of the calls interleaved.
NextConcurrentUpdate ==
    \/ \E document \in UpdDocuments : add(document)
    \/ \E c \in UpdClients, document \in UpdDocuments : update_find(c, document)
    \/ \E c \in UpdClients : update_close(c)
    \/ \E c \in UpdClients : update_insert(c)

SpecConcurrentUpdate == Init /\ [][NextConcurrentUpdate]_vars

\* add, add_all and remove on the auto-increment model, one at a time.
NextAutoIncrementBatch ==
    \/ \E document \in IncBatchDocuments : AutoIncrement_add(document)
    \/ \E documents \in IncBatches : AutoIncrement_add_all(documents)
    \/ \E name \in Names : AutoIncrement_remove([id |-> NoInt, name |-> name])

SpecAutoIncrementBatch == Init /\ [][NextAutoIncrementBatch]_vars

\* add calls of several clients, interleaved at the store operations.
NextConcurrentAdd ==
    \/ \E c \in Clients, document \in IncDocuments : add_validate(c, document)
    \/ \E c \in Clients : add_increment(c)
    \/ \E c \in Clients : add_insert(c)

SpecConcurrentAdd == Init /\ [][NextConcurrentAdd]_vars

\* Calls on the audited model, one at a time.
NextAudited ==
    \/ \E document \in AudDocuments : Audited_add(document)
    \/ \E documents \in AudBatches : Audited_add_all(documents)
    \/ \E document \in AudDocuments : Audited_update(document)
    \/ \E filters \in AudFilters : Audited_remove(filters)

SpecAudited == Init /\ [][NextAudited]_vars

\* Calls on the audited model, one store operation at a time.
NextAuditedSteps ==
    \/ \E document \in AudDocuments : insert_one_step(document)
    \/ audit_add_step
    \/ \E document \in AudDocuments, i \in 1..MaxOps :
          find_one_and_update_step(document, i)
    \/ audit_update_step
    \/ \E filters \in AudFilters : audit_remove_step(filters)
    \/ delete_many_step

SpecAuditedSteps == Init /\ [][NextAuditedSteps]_vars

\* Calls on the plain model, one at a time.
NextPlain ==
    \/ \E document \in PlainDocuments : Plain_add(document)
    \/ \E documents \in PlainBatches : Plain_add_all(documents)
    \/ \E document \in PlainDocuments : Plain_update(document)
    \/ \E filters \in PlainFilters : Plain_remove(filters)
    \/ \E filters \in PlainFilters : Plain_get(filters)
    \/ \E filters \in PlainFilters : Plain_get_all(filters)

SpecPlain == Init /\ [][NextPlain]_vars

\* Calls that write one document, on the plain model declared with audit.
NextPlainAudited ==
    \/ \E document \in PlainDocuments : Plain_add(document)
    \/ \E document \in PlainDocuments : Plain_update(document)
    \/ \E filters \in PlainFilters : Plain_remove(filters)

SpecPlainAudited == InitPlainAudited /\ [][NextPlainAudited]_vars

\* Calls on the list model, one at a time.
NextList ==
    \/ \E document \in ListDocuments : List_add(document)
    \/ \E document \in ListDocuments : List_update(document)
    \/ List_get_all

SpecList == Init /\ [][NextList]_vars

\* deserialize, serialize, deserialize, serialize of a submitted value.
NextConversion ==
    \/ \E field_type \in FieldTypes :
          \E X \in ValidValues(field_type) : Conv_submit(field_type, X)
    \/ Conv_deserialize
    \/ Conv_serialize

SpecConversion == Init /\ [][NextConversion]_vars

\* Calls on the default-key model, one at a time.
NextDefaultKey ==
    \/ \E document \in DpDocuments : Dp_add(document)
    \/ \E document \in DpDocuments : Dp_update(document)
    \/ \E filters \in DpFilters : Dp_remove(filters)
    \/ \E filters \in DpFilters : Dp_get_all(filters)

SpecDefaultKey == Init /\ [][NextDefaultKey]_vars

\* add, update and remove calls on the versioned model and on the plain
\* model, one at a time.
UpdVersionedAdded == [key : Keys, value : {"v1"}]
UpdVersionedUpdated == [key : Keys \cup {None}, value : {"v2"}]
UpdVersionedRemoved == [key : Keys, value : {None}]
UpdPlainAdded == {[key |-> k, value |-> "v1"] : k \in Keys}
UpdPlainUpdated ==
    {[key |-> k, value |-> "v2"] : k \in Keys}
    \cup {EmptyDict, [value |-> "v1"], [key |-> None, value |-> "v1"],
          [key |-> "a", value |-> NotAStr], [key |-> "a", extra |-> "e"]}
UpdPlainRemoved == {[key |-> k] : k \in Keys}

NextUpdate ==
    \/ \E document \in UpdVersionedAdded : add(document)
    \/ \E document \in UpdVersionedUpdated : update(document)
    \/ \E filters \in UpdVersionedRemoved : remove(filters)
    \/ \E document \in UpdPlainAdded : Plain_add(document)
    \/ \E document \in UpdPlainUpdated : Plain_update(document)
    \/ \E filters \in UpdPlainRemoved : Plain_remove(filters)

SpecUpdate == Init /\ [][NextUpdate]_vars

\* add calls on the auto-increment model and on the plain model, get_all on
\* the plain model, and _reset.
ResetIncDocuments == [id : {NoInt}, name : Names]

NextReset ==
    \/ \E document \in ResetIncDocuments : AutoIncrement_add(document)
    \/ \E document \in UpdPlainAdded : Plain_add(document)
    \/ Plain_get_all(EmptyDict)
    \/ reset

SpecReset == Init /\ [][NextReset]_vars

(***************************************************************************)
(* Properties of the versioned model.                                      *)
(***************************************************************************)

RevisionsOf(coll, k) == {d \in coll : d.key = k}
CurrentOf(coll, k) == {d \in coll : d.key = k /\ d.valid_until_utc = NoDate}
ClosedOf(coll, k) == {d \in coll : d.key = k /\ d.valid_until_utc # NoDate}

\* The filters as the caller means them: an entry that is given selects the
\* documents carrying that value.
Selected(d, filters) ==
    /\ filters.key # None => d.key = filters.key
    /\ filters.value # None => d.value = filters.value

\* Instant t lies in the validity window [valid_since_utc, valid_until_utc)
\* of the closed revision d.
ClosedWindowContains(d, t) ==
    /\ d.valid_until_utc # NoDate
    /\ d.valid_since_utc <= t
    /\ t < d.valid_until_utc

\* The validity windows of d1 and d2 share an instant (a null
\* valid_until_utc is an open-ended window).
WindowsOverlap(d1, d2) ==
    /\ d1.valid_until_utc = NoDate \/ d2.valid_since_utc < d1.valid_until_utc
    /\ d2.valid_until_utc = NoDate \/ d1.valid_since_utc < d2.valid_until_utc

\* C1: in every reachable state of the versioned model, at most one record
\* per primary key has a null valid_until_utc.
C1_AtMostOneCurrentPerKey ==
    \A k \in Keys : Cardinality(CurrentOf(collection, k)) <= 1

\* A key with one current revision and two closed ones.
C1_Witness ==
    \E k \in Keys : /\ Cardinality(CurrentOf(collection, k)) = 1
                    /\ Cardinality(ClosedOf(collection, k)) >= 2

\* C2: after every successful update, exactly one record with the updated
\* primary key has a null valid_until_utc, that record is the one the call
\* inserted, and the revision that was current before the call is closed at
\* the instant of the call.
C2_UpdateLeavesNewRevisionCurrent ==
    [][(last'.op = "update" /\ last'.outcome = "ok") =>
       \A document \in Documents :
         update(document) =>
            /\ Cardinality(CurrentOf(collection', document.key)) = 1
            /\ \A n \in CurrentOf(collection', document.key) :
                   n.id \notin Ids(collection) /\ n.valid_since_utc = clock'
            /\ \A p \in CurrentOf(collection, document.key) :
                   [p EXCEPT !.valid_until_utc = clock'] \in collection'
      ]_vars

\* A successful update of a key that already had a closed revision.
C2_Witness ==
    /\ last.op = "update"
    /\ last.outcome = "ok"
    /\ \E d \in collection : /\ d.valid_until_utc = NoDate
                             /\ d.valid_since_utc = clock
                             /\ Cardinality(ClosedOf(collection, d.key)) >= 2

\* C3: the validity windows of the records sharing one primary key never
\* overlap.
C3_WindowsNeverOverlap ==
    \A d1, d2 \in collection :
        (d1.id # d2.id /\ d1.key = d2.key) => ~WindowsOverlap(d1, d2)

\* C4: no call deletes a record or changes a field of an existing record,
\* except for setting the valid_until_utc of a currently valid record from
\* null to the instant of the call; a valid_until_utc that is set is never
\* modified.
C4_HistoryOnlyClosed ==
    [][\A d \in collection :
         \/ d \in collection'
         \/ /\ d.valid_until_utc = NoDate
            /\ [d EXCEPT !.valid_until_utc = clock'] \in collection'
      ]_vars

\* C5: after rollback_to(filters, validity), every primary key that had a
\* closed record selected by the filters whose window contained validity has
\* a currently valid record with the field values of that record,
\* valid_since_utc = now and a null valid_until_utc.
C5_RollbackRestores ==
    [][last'.op = "rollback_to" =>
       \A filters \in RollbackFilters, validity \in 0..MaxTime :
         rollback_to(filters, validity) =>
            \A e \in collection :
               (Selected(e, filters) /\ ClosedWindowContains(e, validity)) =>
                  \E c \in collection' : /\ c.key = e.key
                                         /\ c.value = e.value
                                         /\ c.valid_since_utc = clock'
                                         /\ c.valid_until_utc = NoDate
      ]_vars

C7_RemoveClosesCurrent ==
    [][last'.op = "remove" =>
       \A filters \in Filters :
         remove(filters) =>
            LET hit == {d \in collection :
                          Selected(d, filters) /\ d.valid_until_utc = NoDate}
            IN /\ last'.outcome = "ok"
               /\ last'.count = Cardinality(hit)
               /\ collection' = (collection \ hit)
                     \cup {[d EXCEPT !.valid_until_utc = clock'] : d \in hit}
               /\ Cardinality(collection') = Cardinality(collection)
      ]_vars

\* remove has just closed a record while another record stays current.
C7_Witness ==
    /\ last.op = "remove"
    /\ last.outcome = "ok"
    /\ last.count >= 1
    /\ \E d \in collection : d.valid_until_utc = clock
    /\ \E d \in collection : d.valid_until_utc = NoDate


(***************************************************************************)
(* Properties of the auto-increment model.                                 *)
(***************************************************************************)

\* The values returned by the successful add calls among the first n calls.
AddedValues(n) ==
    {calls[i].value : i \in {j \in 1..n : calls[j].op = "add" /\ calls[j].outcome = "ok"}}

\* C8: the value given to a successfully added document is the counter's
\* new value, whatever the client submitted for the field; it is greater
\* than every value given before, also to documents removed since; the
\* first one is 1, and insert, remove, insert yields 2.
C8_AutoIncrementNeverReused ==
    [][\A document \in IncDocuments :
         (AutoIncrement_add(document) /\ calls'[Len(calls')].outcome = "ok") =>
            LET v == calls'[Len(calls')].value
            IN /\ incCollection' \ incCollection = {[id |-> v, name |-> document.name]}
               /\ v = counters'[<<"auto_increment", "id">>]
               /\ \A e \in AddedValues(Len(calls)) : e < v
               /\ \A o \in incCollection : o.id < v
               /\ (\A i \in DOMAIN calls : calls[i].op = "add" => calls[i].outcome = "invalid")
                     => v = 1
               /\ ( /\ Len(calls) = 2
                    /\ calls[1].op = "add" /\ calls[1].outcome = "ok"
                    /\ calls[2].op = "remove" ) => v = 2
      ]_vars

\* Insert, remove, insert: the second insert, for which the client submitted
\* 1, is stored with 2 while the collection holds no other document.
C8_Witness ==
    /\ Len(calls) = 3
    /\ calls[1].op = "add" /\ calls[1].outcome = "ok"
    /\ calls[2].op = "remove" /\ calls[2].value = 1
    /\ calls[3].op = "add" /\ calls[3].outcome = "ok"
    /\ calls[3].submitted = 1
    /\ \E d \in incCollection : incCollection = {d} /\ d.id = 2

\* C9: with add calls interleaved at the store operations, no two of them
\* are given the same auto-increment value.
C9_NoDuplicateValueUnderInterleaving ==
    /\ \A i, j \in DOMAIN calls : i # j => calls[i].value # calls[j].value
    /\ \A c1, c2 \in Clients :
          (c1 # c2 /\ pc[c1] = "insert" /\ pc[c2] = "insert")
             => local[c1].id # local[c2].id
    /\ \A d1, d2 \in incCollection : d1.id = d2.id => d1 = d2

\* Two adds are in flight at once, both past the counter and before their
\* insert.
C9_Witness ==
    /\ pc["c1"] = "insert"
    /\ pc["c2"] = "insert"
    /\ Len(calls) >= 2

(***************************************************************************)
(* Properties of the audited model.                                        *)
(***************************************************************************)

\* insert key=1, delete, insert key=1, insert key=2
AuditScenario ==
    <<Op("add", 1, "ok"), Op("remove", NoInt, "ok"),
      Op("add", 1, "ok"), Op("add", 2, "ok")>>

AuditScenarioTrail ==
    <<[audit_action |-> "Insert", key |-> 1, revision |-> 1],
      [audit_action |-> "Delete", key |-> 1, revision |-> 2],
      [audit_action |-> "Insert", key |-> 1, revision |-> 3],
      [audit_action |-> "Insert", key |-> 2, revision |-> 4]>>

\* C10: audit revisions strictly increase in the order of the operations
\* and are not reset by a delete (insert 1, delete, insert 1, insert 2 gives
\* Insert/Delete/Insert/Insert with revisions 1, 2, 3, 4); no call modifies
\* or removes an audit record.
C10_AuditRevisionsKeepIncreasing ==
    [][/\ Len(audit') >= Len(audit)
       /\ SubSeq(audit', 1, Len(audit)) = audit
       /\ \A i \in 1..(Len(audit') - 1) : audit'[i].revision < audit'[i + 1].revision
       /\ ops' = AuditScenario => audit' = AuditScenarioTrail
      ]_vars

\* The scenario has been played: the last insert follows a delete.
C10_Witness ==
    /\ ops = AuditScenario
    /\ Len(audit) = 4
    /\ Len(audCollection) = 2

(***************************************************************************)
(* Properties of the audit trail of audited models, plain and versioned.   *)
(***************************************************************************)

\* The audit records a step appends.
NewAuditRecords == SubSeq(audit', Len(audit) + 1, Len(audit'))

\* A step appends n audit records, all with the given action.
Audits(n, action) ==
    /\ Len(audit') = Len(audit) + n
    /\ SubSeq(audit', 1, Len(audit)) = audit
    /\ \A i \in 1..Len(NewAuditRecords) : NewAuditRecords[i].audit_action = action

\* C11: on a model declared with audit, every successful add, add_all,
\* update and remove writes exactly one audit record per affected document,
\* with the matching action; a remove that matches no record writes none.
\* The first conjunct is about the versioned model, the second about the
\* plain model.
C11_EveryWriteIsAudited ==
    [][/\ (clock' # clock /\ last'.outcome = "ok") =>
            /\ last'.op = "add" => Audits(1, "Insert")
            /\ last'.op = "add_all" =>
                  Audits(Cardinality(collection') - Cardinality(collection), "Insert")
            /\ last'.op = "update" => Audits(1, "Update")
            /\ last'.op = "remove" => Audits(last'.count, "Delete")
       /\ (ops' # ops /\ ops'[Len(ops')].outcome = "ok") =>
            /\ ops'[Len(ops')].op = "add" => Audits(1, "Insert")
            /\ ops'[Len(ops')].op = "add_all" =>
                  Audits(Len(audCollection') - Len(audCollection), "Insert")
            /\ ops'[Len(ops')].op = "update" => Audits(1, "Update")
            /\ ops'[Len(ops')].op = "remove" =>
                  Audits(Len(audCollection) - Len(audCollection'), "Delete")
      ]_vars

\* C12: the audit record of an insert, update or delete is written only
\* after the write on the model's collection: while the call in progress has
\* not made its write, it has written no audit record.
C12_AuditOnlyAfterStoreWrite ==
    (pending.op # "none" /\ ~pending.written) => Len(audit) = pending.base

(***************************************************************************)
(* Properties of the calls on the plain model.                             *)
(***************************************************************************)

\* C13: add_all never commits partial success: when it raises
\* ValidationFailed, for validation errors (keyed by batch position) or for a
\* uniqueness conflict reported by the store, the collection is as it was
\* before the call; an empty batch raises 'No data provided.' and leaves the
\* store alone.
C13_AddAllNeverPartial ==
    [][(plainLast'.op = "add_all" /\ plainLast'.outcome = "ValidationFailed") =>
          \A documents \in PlainBatches :
             Plain_add_all(documents) =>
                /\ plain' = plain
                /\ documents = <<>> => plainLast'.message = "No data provided."
      ]_vars

\* C14: when the store rejects the insert of add for a unique index
\* conflict, add raises ValidationFailed 'This document already exists.'
\* after exactly one insert attempt, and the collection and the audit trail
\* are as they were before the call.
C14_DuplicateAddRejectedOnce ==
    [][plainLast'.op = "add" =>
          \A document \in PlainDocuments :
             (/\ Plain_add(document)
              /\ CRUDModel_validate_insert(document) = {}
              /\ ~Collection_insert_one(plain,
                     CRUDModel_deserialize_insert(document)).ok) =>
                /\ plainLast'.outcome = "ValidationFailed"
                /\ plainLast'.message = "This document already exists."
                /\ plainLast'.attempts = 1
                /\ plain' = plain
                /\ audit' = audit
      ]_vars

\* A duplicate add was rejected on the audited model, records being stored
\* and audited.
C14_Witness ==
    /\ audit_model
    /\ plainLast.op = "add"
    /\ plainLast.message = "This document already exists."
    /\ plainLast.attempts = 1
    /\ plain # {}
    /\ audit # <<>>

\* C15: an update whose document passes validation and whose primary key
\* matches no record (on the versioned model: no currently valid record)
\* raises ModelCouldNotBeFound and leaves every record as it was; an update
\* whose document fails validation raises ValidationFailed whatever the
\* collection holds, and leaves it as it was.
C15_UpdateOfMissingRecord ==
    [][/\ (last'.op = "update" /\ UNCHANGED plainVars) =>
            \A document \in UpdVersionedUpdated :
               update(document) =>
                  /\ document.key = None =>
                        last'.outcome = "invalid" /\ collection' = collection
                  /\ (/\ document.key # None
                      /\ ~\E d \in collection :
                            d.key = document.key /\ d.valid_until_utc = NoDate) =>
                        last'.outcome = "notfound" /\ collection' = collection
       /\ (plainLast'.op = "update" /\ UNCHANGED verVars) =>
            \A document \in UpdPlainUpdated :
               LET WellFormed ==
                     /\ Get(document, "key") \in Keys
                     /\ \A n \in FieldNames : Get(document, n) # NotAStr
               IN Plain_update(document) =>
                    /\ ~WellFormed =>
                          /\ plainLast'.outcome = "ValidationFailed"
                          /\ plainLast'.errors # {}
                          /\ plain' = plain
                    /\ (/\ WellFormed
                        /\ ~\E d \in plain : d["key"] = document["key"]) =>
                          /\ plainLast'.outcome = "ModelCouldNotBeFound"
                          /\ plain' = plain
      ]_vars

\* On both models, records being stored, the last update was of a key that
\* is not stored (on the versioned model: whose record is no longer valid).
C15_Witness ==
    /\ last.op = "update" /\ last.outcome = "notfound"
    /\ collection # {}
    /\ \E d \in collection : ~CurrentlyValid(d)
    /\ plainLast.op = "update" /\ plainLast.outcome = "ModelCouldNotBeFound"
    /\ plain # {}

\* C16: a successful update returns (previous, new): previous is what get on
\* the primary key returned before the call; new is previous with every
\* submitted declared field that is not None replaced by the submitted value
\* and every other field unchanged; get on the primary key returns new after
\* the call; the records with another primary key are unchanged.
C16_UpdateReturnsPreviousAndNew ==
    [][(plainLast'.op = "update" /\ plainLast'.outcome = "ok") =>
          \A document \in PlainDocuments :
             Plain_update(document) =>
                LET K == [key |-> document["key"]]
                    previous == plainLast'.returned[1]
                    new == plainLast'.returned[2]
                IN /\ Len(plainLast'.returned) = 2
                   /\ CRUDModel_get(plain, K)
                        = {Result("get", "ok", "", {}, <<previous>>)}
                   /\ new = [n \in FieldNames |->
                               IF Get(document, n) # None THEN document[n]
                               ELSE previous[n]]
                   /\ CRUDModel_get(plain', K)
                        = {Result("get", "ok", "", {}, <<new>>)}
                   /\ {d \in plain' : d["key"] # document["key"]}
                        = {d \in plain : d["key"] # document["key"]}
      ]_vars

\* An update changed one of two stored records and left a field it did not
\* submit as it was.
C16_Witness ==
    /\ plainLast.op = "update" /\ plainLast.outcome = "ok"
    /\ plainLast.returned[1] # plainLast.returned[2]
    /\ plainLast.returned[1]["value"] = "v1"
    /\ plainLast.returned[2] =
          [key |-> "a", value |-> "v1", opt |-> "o1", note |-> None]
    /\ Cardinality(plain) = 2

\* C17: get raises ValidationFailed 'More than one result' when its filters
\* match more than one record, returns the record serialized when they match
\* exactly one, and returns an empty document when they match none, where
\* get_all returns an empty list; get and get_all leave the store as it is.
C17_GetByNumberOfMatches ==
    [][/\ plainLast'.op = "get" =>
            \A filters \in PlainFilters :
               (Plain_get(filters) /\ CRUDModel_validate_query(filters) = {}) =>
                  LET matching == Found(plain, CRUDModel_deserialize_query(filters))
                  IN /\ plain' = plain /\ audit' = audit
                     /\ Cardinality(matching) > 1 =>
                           /\ plainLast'.outcome = "ValidationFailed"
                           /\ plainLast'.message =
                                "More than one result: Consider another filtering."
                     /\ Cardinality(matching) = 1 =>
                           /\ plainLast'.outcome = "ok"
                           /\ \E d \in matching :
                                plainLast'.returned = <<CRUDModel_serialize(d)>>
                     /\ matching = {} =>
                           /\ plainLast'.outcome = "ok"
                           /\ plainLast'.returned = <<EmptyDict>>
       /\ plainLast'.op = "get_all" =>
            \A filters \in PlainFilters :
               (Plain_get_all(filters) /\ CRUDModel_validate_query(filters) = {}) =>
                  /\ plain' = plain /\ audit' = audit
                  /\ Found(plain, CRUDModel_deserialize_query(filters)) = {} =>
                        plainLast'.outcome = "ok" /\ plainLast'.returned = <<>>
      ]_vars

\* get was called with filters matching the two stored records.
C17_Witness ==
    /\ plainLast.op = "get"
    /\ plainLast.outcome = "ValidationFailed"
    /\ plainLast.message = "More than one result: Consider another filtering."
    /\ Cardinality(plain) = 2

\* C18: for every valid document D with primary key K, get(K) after add(D)
\* returns a document equal to the one add returned, which holds exactly the
\* declared field names, with the value of D for every field D gives and the
\* declared default value for every field D omits or gives as None.
C18_AddThenGet ==
    [][(plainLast'.op = "add" /\ plainLast'.outcome = "ok") =>
          \A D \in PlainDocuments :
             Plain_add(D) =>
                LET returned == plainLast'.returned[1]
                IN /\ Len(plainLast'.returned) = 1
                   /\ CRUDModel_get(plain', [key |-> D["key"]])
                        = {Result("get", "ok", "", {}, <<returned>>)}
                   /\ DOMAIN returned = {"key", "value", "opt", "note"}
                   /\ \A field \in Fields :
                        returned[field.name] =
                           IF Get(D, field.name) = None THEN field.default_value
                           ELSE D[field.name]
      ]_vars

\* The fields declared non-nullable without a default value and without
\* auto-increment: here, the primary key.
RequiredFieldNames ==
    {field.name : field \in {f \in Fields : /\ f.is_primary_key
                                           /\ f.default_value = None
                                           /\ ~f.should_auto_increment}}

\* C19 as stated: for every field declared non-nullable without a default
\* value and without auto-increment, an add whose document omits the field
\* or gives it None, the document without any field included, fails
\* validation with 'Missing data for required field.' keyed by the field
\* name, and nothing is stored.
C19_MissingRequiredField ==
    [][(plainLast'.op = "add") =>
          \A document \in PlainDocuments, name \in RequiredFieldNames :
             (Plain_add(document) /\ Get(document, name) = None) =>
                /\ plainLast'.outcome = "ValidationFailed"
                /\ <<name, "Missing data for required field.">>
                     \in plainLast'.errors
                /\ plain' = plain
      ]_vars

\* C19, amended: the same for every document that holds at least one name;
\* an add of the document without any field fails validation with
\* 'No data provided.' keyed by the empty name, and nothing is stored.
C19_MissingRequiredFieldUnlessEmpty ==
    [][(plainLast'.op = "add") =>
          \A document \in PlainDocuments, name \in RequiredFieldNames :
             (Plain_add(document) /\ Get(document, name) = None) =>
                /\ plainLast'.outcome = "ValidationFailed"
                /\ plain' = plain
                /\ document # EmptyDict =>
                      <<name, "Missing data for required field.">>
                        \in plainLast'.errors
                /\ document = EmptyDict =>
                      plainLast'.errors = {<<"", "No data provided.">>}
      ]_vars

\* An add without its primary key was rejected, a record being stored.
C19_Witness ==
    /\ plainLast.op = "add"
    /\ plainLast.outcome = "ValidationFailed"
    /\ plainLast.errors = {<<"key", "Missing data for required field.">>}
    /\ plain # {}

\* C20: names that are not declared fields, submitted to add, add_all or
\* update, cause no validation failure and are absent from the stored
\* records and from the returned documents; the call has the result and the
\* effect on the store of the same call without the undeclared names
\* (compared for documents that hold a declared name as well).
C20_UnknownFieldsAreDropped ==
    [][/\ \A d \in plain' : DOMAIN d \subseteq FieldNames \cup {"_id"}
       /\ \A i \in DOMAIN plainLast'.returned :
             DOMAIN plainLast'.returned[i] \subseteq FieldNames
       /\ plainLast'.op = "add" =>
             \A document \in PlainDocuments :
                (/\ Plain_add(document)
                 /\ Restrict(document, FieldNames) # EmptyDict) =>
                   Plain_add(Restrict(document, FieldNames))
       /\ plainLast'.op = "add_all" =>
             \A documents \in PlainBatches :
                (/\ Plain_add_all(documents)
                 /\ \A i \in DOMAIN documents :
                       Restrict(documents[i], FieldNames) # EmptyDict) =>
                   Plain_add_all([i \in DOMAIN documents |->
                                    Restrict(documents[i], FieldNames)])
       /\ plainLast'.op = "update" =>
             \A document \in PlainDocuments :
                (/\ Plain_update(document)
                 /\ Restrict(document, FieldNames) # EmptyDict) =>
                   Plain_update(Restrict(document, FieldNames))
      ]_vars

\* add_all stored and returned the document submitted as
\* {key: 'b', extra: 'e'}, the only one with that key in the batches.
C20_Witness ==
    /\ plainLast.op = "add_all" /\ plainLast.outcome = "ok"
    /\ \E i \in DOMAIN plainLast.returned :
          plainLast.returned[i] =
             [key |-> "b", value |-> None, opt |-> "d", note |-> None]
    /\ \E d \in plain : d["key"] = "b" /\ DOMAIN d = {"key", "_id"}

(***************************************************************************)
(* Properties of the list model.                                           *)
(***************************************************************************)

\* The alphabetical order of the items.
Rank(item) == CASE item = "a" -> 1 [] item = "b" -> 2 [] item = "c" -> 3

IsSorted(values) ==
    \A i \in 1..(Len(values) - 1) : Rank(values[i]) <= Rank(values[i + 1])

\* C21: a list field of str items declared with sorted=True comes back in
\* sorted order from add, from update (previous and new document) and from
\* reads, whatever the order of the submitted list.
C21_SortedListComesBackSorted ==
    (listLast.outcome = "ok") =>
        \A i \in DOMAIN listLast.returned : IsSorted(listLast.returned[i].list_field)

(***************************************************************************)
(* Properties of the model whose primary key has a default value.          *)
(***************************************************************************)

\* The records added without their key.
AddedWithoutKey(coll) == SelectSeq(coll, LAMBDA d : "key" \notin DOMAIN d)

\* C22: a record added without its primary key, which has a default value,
\* is the record of the default key: a get filtered on the default value
\* returns it and only it, a remove filtered on the default value removes
\* it and only it, and an update that omits the key modifies it and leaves
\* the other records alone.
C22_DefaultValueIsTheKey ==
    [][(AddedWithoutKey(dpCollection) # <<>>
        /\ ~\E i \in DOMAIN dpCollection : Get(dpCollection[i], "key") = "test") =>
          /\ Dp_get_all([key |-> "test"]) =>
                dpLast'.returned =
                   [i \in DOMAIN AddedWithoutKey(dpCollection) |->
                      Model_serialize(DpFields, AddedWithoutKey(dpCollection)[i])]
          /\ Dp_remove([key |-> "test"]) =>
                /\ dpLast'.count = 1
                /\ AddedWithoutKey(dpCollection') = <<>>
                /\ Len(dpCollection') = Len(dpCollection) - 1
          /\ dpLast'.op = "update" =>
                \A document \in DpDocuments :
                   (Dp_update(document) /\ "key" \notin DOMAIN document
                      /\ document # EmptyDict) =>
                      /\ dpLast'.outcome = "ok"
                      /\ \A i \in DOMAIN dpCollection :
                            "key" \in DOMAIN dpCollection[i] =>
                               dpCollection'[i] = dpCollection[i]
      ]_vars

(***************************************************************************)
(* Properties of _reset.                                                   *)
(***************************************************************************)

\* C23: after _reset every collection holds no document, so get_all returns
\* an empty list, and no counter is left, so the next add on the model with
\* an auto-increment field is given 1; the unique index is still enforced.
C23_ResetClearsDocumentsAndCounters ==
    [][/\ (calls' # calls /\ calls'[Len(calls')].op = "reset") =>
            /\ incCollection' = {} /\ plain' = {} /\ collection' = {}
            /\ audCollection' = <<>> /\ audit' = <<>>
            /\ listCollection' = {} /\ dpCollection' = <<>>
            /\ DOMAIN counters' = {}
            /\ Orders(Found(plain', CRUDModel_deserialize_query(EmptyDict)))
                 = {<<>>}
       /\ (calls' # calls /\ calls'[Len(calls')].op = "add") =>
            /\ (Len(calls) > 0 /\ calls[Len(calls)].op = "reset") =>
                  /\ calls'[Len(calls')].outcome = "ok"
                  /\ calls'[Len(calls')].value = 1
            /\ \A document \in ResetIncDocuments :
                  (/\ AutoIncrement_add(document)
                   /\ \E o \in incCollection : o.name = document.name) =>
                     calls'[Len(calls')].outcome = "exists"
      ]_vars

\* Documents were stored in two collections, and the add that followed
\* _reset was given 1 again.
C23_Witness ==
    /\ Len(calls) = 3
    /\ calls[1].op = "add" /\ calls[1].value = 1
    /\ calls[2].op = "reset"
    /\ calls[3].op = "add" /\ calls[3].value = 1
    /\ plainLast.op = "add" /\ plainLast.outcome = "ok"
    /\ plain = {}

(***************************************************************************)
(* Properties of the conversion of a field value.                          *)
(***************************************************************************)

\* The strings Column.serialize produces: a date for a date field, a date
\* and a time separated by 'T' (with '+00:00' in UTC) for a datetime field,
\* an Enum member name, an identifier in lower case, any str.
Canonical(field_type, X) ==
    /\ X.t = "str"
    /\ field_type = "datetime" =>
          \/ Len(X.v) = 3
          \/ Len(X.v) = 4 /\ X.v[4] = "+00:00"
    /\ field_type = "date" => Len(X.v) = 1
    /\ field_type = "ObjectId" => X.v[1] = Lower(X.v[1])

C25_InvalidInputLeavesTheStoreUnchanged ==
    [][(Len(calls') = Len(calls) + 1 /\ calls'[Len(calls')].outcome = "invalid")
         => (incCollection' = incCollection /\ counters' = counters)]_vars

\* C28: an add or add_all that raises ValidationFailed, for an invalid
\* document or for a document the unique index refuses, leaves the counters
\* as they were: it consumes no auto-increment value.
C28_RejectedInsertConsumesNoValue ==
    [][(/\ Len(calls') = Len(calls) + 1
        /\ calls'[Len(calls')].op \in {"add", "add_all"}
        /\ calls'[Len(calls')].outcome \in {"invalid", "exists"})
         => counters' = counters]_vars

(***************************************************************************)
(* Properties of the two writes of a versioned update.                     *)
(***************************************************************************)

ValidFor(key) == {d \in collection : d.key = key /\ CurrentlyValid(d)}

\* C26: between the update_one and the insert_one of a versioned update,
\* the key of the update has no currently valid record: a reader finds none.
C26_NoValidRecordBetweenTheWrites ==
    \A c \in UpdClients :
        upd[c].pc = "insert" => ValidFor(upd[c].document.key) = {}

\* C27: once two versioned updates of one key have returned, whatever the
\* order of their store operations, the key has exactly one currently valid
\* record.
C27_ConcurrentUpdatesLeaveOneValid ==
    (/\ \A c \in UpdClients : upd[c].pc = "returned"
     /\ upd["u1"].document.key = upd["u2"].document.key
     /\ \E d \in collection : d.key = upd["u1"].document.key)
        => Cardinality(ValidFor(upd["u1"].document.key)) = 1

\* Two updates of one key have returned, the second one begun between the
\* store operations of the first; one of them inserted its revision and the
\* other one was refused by the unique index.
C27_Witness ==
    /\ \A c \in UpdClients : upd[c].pc = "returned"
    /\ upd["u1"].document.key = upd["u2"].document.key
    /\ upd["u2"].overlap
    /\ upd["u1"].outcome = "ok"
    /\ upd["u2"].outcome = "exists"
    /\ Cardinality(ValidFor(upd["u1"].document.key)) = 1

(***************************************************************************)
(* Properties of the versioned model with an auto-incremented field.       *)
(***************************************************************************)

\* The revisions a call has inserted.
Inserted == collection' \ collection

\* C29: a versioned update that returns leaves the counters as they were,
\* and the revision it inserts carries the auto-incremented value and the
\* primary key of the revision that was current before the call.
C29_UpdateKeepsAutoIncrementValue ==
    [][(last'.op = "update" /\ last'.outcome = "ok")
         => /\ counters' = counters
            /\ \A d \in {x \in Inserted : CurrentlyValid(x)} :
                 \E previous \in collection :
                    /\ CurrentlyValid(previous)
                    /\ previous.key = d.key
                    /\ previous.number = d.number]_vars

(***************************************************************************)
(* Properties of the filters of remove, get and get_all.                   *)
(***************************************************************************)

\* The entries of the filters that are to reach the store: the ones on key,
\* value and flag that are not None, and the None on flag.
KeptEntries(filters) ==
    Restrict(filters, {n \in {"key", "value", "flag"} :
                          n \in DOMAIN filters /\ (filters[n] # None \/ n = "flag")})

\* The document has the values of the entries; an entry that is None asks
\* for a field that is null or absent.
Satisfies(d, entries) ==
    \A n \in DOMAIN entries :
        IF entries[n] = None
        THEN n \notin DOMAIN d \/ d[n] = None
        ELSE n \in DOMAIN d /\ d[n] = entries[n]

\* C30: remove, get and get_all query the store with the filters without
\* the entries on undeclared names and without the None entries on fields
\* that do not have allow_none_as_filter.  A remove left without entry
\* deletes every record; a None on the field with allow_none_as_filter is
\* kept and selects the records whose field is null or absent.
C30_DiscardedFiltersNeverReachTheStore ==
    [][(plainLast'.op \in {"remove", "get", "get_all"} /\ plainLast'.outcome = "ok")
         => LET filters == plainLast'.filters
                kept == KeptEntries(filters)
            IN /\ plainLast'.queried = kept
               /\ plainLast'.op = "remove" =>
                     /\ plain' = {d \in plain : ~Satisfies(d, kept)}
                     /\ plainLast'.count = Cardinality(plain \ plain')
                     /\ kept = EmptyDict => plain' = {}
                     /\ ("flag" \in DOMAIN filters /\ filters["flag"] = None) =>
                           \A d \in plain \ plain' : "flag" \notin DOMAIN d
               /\ plainLast'.op = "get_all" =>
                     /\ plain' = plain
                     /\ plainLast'.count = Cardinality({d \in plain : Satisfies(d, kept)})]_vars

\* remove(value=None, extra='e') has deleted the two records of the
\* collection, one of them with a value.
C30_Witness ==
    /\ plainLast.op = "remove"
    /\ plainLast.filters = [value |-> None, extra |-> "e"]
    /\ plainLast.queried = EmptyDict
    /\ plainLast.count = 2
    /\ plain = {}

====
